---- MODULE Spec2Model ----
(***************************************************************************)
(* A model of the GEDI ingestion pipeline of gedidb:                       *)
(*   - hash_string_list and the content hash of _process_granule           *)
(*     (pipeline/data_setup.py),                                           *)
(*   - the granule filename parsers (granule/granule_name.py) and          *)
(*     _get_granule_key_for_filename,                                      *)
(*   - the per-product quality filters (granule/gedi_l2a.py, gedi_l2b.py,  *)
(*     gedi_l4a.py) acting on a beam's cached table,                       *)
(*   - the three-way join of _process_granule,                             *)
(*   - exec_spark / _process_granule / _write_db against the ledger and    *)
(*     shot tables,                                                        *)
(*   - _parse over the beams of a file (granule/granule_parser.py),        *)
(*   - the shape checks of common/shape_parser.py,                         *)
(*   - _process_granule file by file, _get_granule_metadata, and the       *)
(*     ledger row of _write_db,                                            *)
(*   - the Spark job of exec_spark over its partitions, and one call of    *)
(*     _download_url.                                                      *)
(* Each domain has its own specification (SpecHash, SpecName, SpecFilter,  *)
(* SpecJoin, Spec, SpecResume, SpecStale, SpecParse, SpecShape, SpecAsm,   *)
(* SpecMd, SpecEntry, SpecJob, SpecDl); the variables of the other domains *)
(* stay idle.                                                              *)
(***************************************************************************)
EXTENDS Integers, Sequences, FiniteSets, TLC

VARIABLES
    \* hash domain: a filename list, a permutation of it, and their hashes
    hList, hPerm, hDigest, hKey,
    \* filename domain: two filenames, the last parser call, their keys
    nFile, nParsed, nKey,
    \* quality-filter domain: one beam and its cached table
    bProduct, bRaw, bCache, bLast, bCalls, bOnce,
    \* join domain: the three filtered tables of a granule and the result
    jTables, jOut,
    \* pipeline: the database, the artifact files, and the runs
    ledger, shots, artifacts, runs, tasks, inputs,
    \* parser domain: the beams of one granule file and what _parse returns
    gProduct, gBeams, gOut,
    \* shape domain: a region of interest, the call's arguments, its outcome
    sShape, sOut,
    \* metadata domain: the files the catalogue returns and the work list
    mFiles, mOut,
    \* assembly domain: the parsed files of a granule, the artifact found, the call's outcome
    aGranules, aExisting, aOut,
    \* ledger-entry domain: the files of a key as handed over, the ledger row
    eFiles, eRow,
    \* job domain: what parsing each granule comes to, its partition, its progress, the job
    pOutcome, pPart, pState, pJob,
    \* download domain: the call's input and what wget will serve, the destination, the temporary file, the runs of wget, the call's position
    dInput, dDest, dTemp, dAttempts, dPc

hashVars == <<hList, hPerm, hDigest, hKey>>

nameVars == <<nFile, nParsed, nKey>>

filterVars == <<bProduct, bRaw, bCache, bLast, bCalls, bOnce>>

joinVars == <<jTables, jOut>>

pipeVars == <<ledger, shots, artifacts, runs, tasks, inputs>>

parseVars == <<gProduct, gBeams, gOut>>

shapeVars == <<sShape, sOut>>

mdVars == <<mFiles, mOut>>

asmVars == <<aGranules, aExisting, aOut>>

entryVars == <<eFiles, eRow>>

jobVars == <<pOutcome, pPart, pState, pJob>>

dlVars == <<dInput, dDest, dTemp, dAttempts, dPc>>

vars == <<hashVars, nameVars, filterVars, joinVars, pipeVars,
          parseVars, shapeVars, mdVars, asmVars, entryVars, jobVars, dlVars>>

None == "None"

(***************************************************************************)
(* Strings are sequences of one-character strings, so that len(), sorted() *)
(* and the regular expressions can be computed as the code computes them.  *)
(***************************************************************************)

\* Code-point order of the characters the model uses (ASCII order).
CharOrder ==
    <<",", ".", "0", "1", "2", "3", "4", "5", "6", "7", "8", "9", ":",
      "A", "B", "G", "O", "T", "V", "_", "a", "b", "h">>

CharRank(c) == CHOOSE i \in 1..Len(CharOrder) : CharOrder[i] = c

\* Python's str.__lt__: lexicographic by code point, a proper prefix is smaller.
RECURSIVE StrLess(_, _)
StrLess(s, t) ==
    IF t = <<>> THEN FALSE
    ELSE IF s = <<>> THEN TRUE
    ELSE IF s[1] # t[1] THEN CharRank(s[1]) < CharRank(t[1])
    ELSE StrLess(Tail(s), Tail(t))

\* Insert x into an ascending list, after the elements equal to it (stable).
RECURSIVE InsertSorted(_, _)
InsertSorted(x, l) ==
    IF l = <<>> THEN <<x>>
    ELSE IF StrLess(x, l[1]) THEN <<x>> \o l
    ELSE <<l[1]>> \o InsertSorted(x, Tail(l))

\* The list left to itself: what sorted() would be if it did not sort.
Unsorted(l) == l

\* Python's sorted() on a list of strings.
RECURSIVE Sorted(_)
Sorted(l) ==
    IF l = <<>> THEN <<>>
    ELSE InsertSorted(l[Len(l)], Sorted(SubSeq(l, 1, Len(l) - 1)))

\* str(n) for a natural number n, as a sequence of digit characters.
RECURSIVE DecimalStr(_)
DecimalStr(n) ==
    LET d == <<"0", "1", "2", "3", "4", "5", "6", "7", "8", "9">>[(n % 10) + 1]
    IN  IF n < 10 THEN <<d>> ELSE DecimalStr(n \div 10) \o <<d>>

\* f"{len(item)}:{item}"
LenPrefixed(item) == DecimalStr(Len(item)) \o <<":">> \o item

\* ",".join([...]) over the length-prefixed items.
RECURSIVE JoinComma(_)
JoinComma(items) ==
    IF items = <<>> THEN <<>>
    ELSE IF Len(items) = 1 THEN LenPrefixed(items[1])
    ELSE LenPrefixed(items[1]) \o <<",">> \o JoinComma(Tail(items))

\* hashlib.md5(...).hexdigest(): a digest is determined by the bytes hashed,
\* and the strings of the model have pairwise distinct MD5 digests.
Md5Hex(bytes) == <<"md5", bytes>>

\* data_setup.hash_string_list
hash_string_list(string_list) == Md5Hex(JoinComma(string_list))

\* _process_granule: included_files = sorted([...]) and the hash in the
\* artifact's file name.
IncludedFiles(names) == Sorted(names)

ContentHash(names) == hash_string_list(IncludedFiles(names))

(***************************************************************************)
(* Filename domain.  A filename is the sequence of its "_"-separated       *)
(* segments, each a sequence of characters; no segment is empty.  The two  *)
(* regular expressions of granule_name.py separate their groups by "_",    *)
(* so every group but the first (\w+_\w, found by an unanchored search)    *)
(* and the last (no anchor follows it) must match a whole segment.         *)
(***************************************************************************)
DigitChars == {"0", "1", "2", "3", "4", "5", "6", "7", "8", "9"}

\* \w: letters, digits and "_".
WordChars == DigitChars \cup {"A", "B", "G", "O", "T", "V", "a", "b", "h"}

AllDigits(s) == \A i \in 1..Len(s) : s[i] \in DigitChars

\* \d{n} between two "_".
DigitsN(s, n) == Len(s) = n /\ AllDigits(s)

\* c\d+ between two "_" (O\d+, T\d+).
Prefixed(s, c) == Len(s) >= 2 /\ s[1] = c /\ AllDigits(Tail(s))

\* The longest prefix of digits of s.
RECURSIVE DigitRun(_)
DigitRun(s) ==
    IF s = <<>> \/ s[1] \notin DigitChars THEN <<>>
    ELSE <<s[1]>> \o DigitRun(Tail(s))

\* The longest suffix of word characters of s.
RECURSIVE WordSuffix(_)
WordSuffix(s) ==
    IF s = <<>> \/ s[Len(s)] \notin WordChars THEN <<>>
    ELSE WordSuffix(SubSeq(s, 1, Len(s) - 1)) \o <<s[Len(s)]>>

\* (\d{4})(\d{3})(\d{2})(\d{2})(\d{2}) between two "_".
IsDateSeg(s) == DigitsN(s, 13)

\* (\w+_\w)_ ending just before segment d: segment d-1 is one word
\* character and segment d-2 ends in a word character.
ProductBefore(segs, d) ==
    /\ d >= 3
    /\ Len(segs[d - 1]) = 1
    /\ segs[d - 1][1] \in WordChars
    /\ WordSuffix(segs[d - 2]) # <<>>

\* The text (\w+_\w) captures: the word characters that end with segment
\* d-1, as segments (the search starts at the leftmost character it can).
ProductGroup(segs, d) ==
    LET broken == { i \in 1..(d - 2) : WordSuffix(segs[i]) # segs[i] }
        b == IF broken = {} THEN 1
             ELSE CHOOSE i \in broken : \A j \in broken : j <= i
    IN  <<WordSuffix(segs[b])>> \o SubSeq(segs, b + 1, d - 1)

\* The LP DAAC pattern (granule_name.py:69-85) with its date at segment d.
MatchesLPAt(segs, d) ==
    /\ d + 7 <= Len(segs)
    /\ ProductBefore(segs, d)
    /\ IsDateSeg(segs[d])
    /\ Prefixed(segs[d + 1], "O")
    /\ DigitsN(segs[d + 2], 2)
    /\ Prefixed(segs[d + 3], "T")
    /\ DigitsN(segs[d + 4], 2)
    /\ DigitsN(segs[d + 5], 3)
    /\ DigitsN(segs[d + 6], 2)
    /\ Len(segs[d + 7]) >= 2
    /\ segs[d + 7][1] = "V"
    /\ segs[d + 7][2] \in DigitChars

\* The ORNL DAAC pattern (granule_name.py:96-110) with its date at segment d.
MatchesORNLAt(segs, d) ==
    /\ d + 5 <= Len(segs)
    /\ ProductBefore(segs, d)
    /\ IsDateSeg(segs[d])
    /\ Prefixed(segs[d + 1], "O")
    /\ Prefixed(segs[d + 2], "T")
    /\ DigitsN(segs[d + 3], 2)
    /\ DigitsN(segs[d + 4], 3)
    /\ Len(segs[d + 5]) >= 2
    /\ segs[d + 5][1] \in DigitChars
    /\ segs[d + 5][2] \in DigitChars

MatchesLP(segs) == \E d \in 1..Len(segs) : MatchesLPAt(segs, d)

MatchesORNL(segs) == \E d \in 1..Len(segs) : MatchesORNLAt(segs, d)

\* The five groups of the date segment.
DateGroups(s) ==
    <<SubSeq(s, 1, 4), SubSeq(s, 5, 7), SubSeq(s, 8, 9),
      SubSeq(s, 10, 11), SubSeq(s, 12, 13)>>

\* parse_result.groups() of the LP pattern, in the pattern's group order.
LPGroups(segs) ==
    LET d == CHOOSE d \in 1..Len(segs) : MatchesLPAt(segs, d)
    IN  <<ProductGroup(segs, d)>> \o DateGroups(segs[d]) \o
        <<segs[d + 1], segs[d + 2], segs[d + 3], segs[d + 4], segs[d + 5],
          segs[d + 6], <<"V">> \o DigitRun(Tail(segs[d + 7]))>>

\* parse_result.groups() of the ORNL pattern, in the pattern's group order.
ORNLGroups(segs) ==
    LET d == CHOOSE d \in 1..Len(segs) : MatchesORNLAt(segs, d)
    IN  <<ProductGroup(segs, d)>> \o DateGroups(segs[d]) \o
        <<segs[d + 1], segs[d + 2], segs[d + 3], segs[d + 4],
          SubSeq(segs[d + 5], 1, 2)>>

\* The fields of the dataclass GediNameMetadata, in declaration order.
BaseFields ==
    <<"product", "year", "julian_day", "hour", "minute", "second", "orbit",
      "ground_track", "positioning", "granule_production_version",
      "release_number">>

\* The fields of GediLPNameMetadata: the base class's fields, then its own.
LPFields == BaseFields \o <<"sub_orbit_granule", "pge_version_number">>

\* The fields of GediORNLNameMetadata: it adds none.
ORNLFields == BaseFields

\* The order in which the LP pattern lists its groups (granule_name.py:71-83).
LPPattern ==
    <<"product", "year", "julian_day", "hour", "minute", "second", "orbit",
      "sub_orbit_granule", "ground_track", "positioning",
      "pge_version_number", "granule_production_version", "release_number">>

\* The order in which the ORNL pattern lists its groups (granule_name.py:98-108).
ORNLPattern ==
    <<"product", "year", "julian_day", "hour", "minute", "second", "orbit",
      "ground_track", "positioning", "release_number",
      "granule_production_version">>

FieldSet(fields) == { fields[i] : i \in 1..Len(fields) }

IndexOf(fields, f) == CHOOSE i \in 1..Len(fields) : fields[i] = f

\* Cls(*args): a dataclass's generated __init__ binds positional arguments
\* to its fields in declaration order.
Construct(fields, args) ==
    [f \in FieldSet(fields) |-> args[IndexOf(fields, f)]]

NoRecord == <<>>

ValueError == [status |-> "ValueError", rec |-> NoRecord]

\* A parser that returns empty metadata where the code raises.
parse_lp_no_raise(segs) ==
    IF ~MatchesLP(segs)
    THEN [status |-> "ok", rec |-> [f \in FieldSet(LPFields) |-> None]]
    ELSE [status |-> "ok", rec |-> Construct(LPFields, LPGroups(segs))]

\* granule_name.parse_lp_granule_filename
parse_lp_granule_filename(segs) ==
    IF ~MatchesLP(segs) THEN ValueError
    ELSE [status |-> "ok", rec |-> Construct(LPFields, LPGroups(segs))]

\* granule_name.parse_ornl_granule_filename
parse_ornl_granule_filename(segs) ==
    IF ~MatchesORNL(segs) THEN ValueError
    ELSE [status |-> "ok", rec |-> Construct(ORNLFields, ORNLGroups(segs))]

\* granule_name.parse_granule_filename, which data_setup.py and
\* gedi_granule.py call and granule_name.py does not define: the filename is
\* parsed against one of the two patterns and fails when it matches neither.
parse_granule_filename(segs) ==
    IF parse_lp_granule_filename(segs).status = "ok"
    THEN parse_lp_granule_filename(segs)
    ELSE parse_ornl_granule_filename(segs)

NoKey == <<>>

\* data_setup._get_granule_key_for_filename: the key is the two attribute
\* values joined by "_", here the pair of them.
get_granule_key_for_filename(segs) ==
    LET parsed == parse_granule_filename(segs)
    IN  IF parsed.status # "ok" THEN [status |-> parsed.status, key |-> NoKey]
        ELSE IF "sub_orbit_granule" \notin DOMAIN parsed.rec
        THEN [status |-> "AttributeError", key |-> NoKey]
        ELSE [status |-> "ok",
              key |-> <<parsed.rec["orbit"], parsed.rec["sub_orbit_granule"]>>]

(***************************************************************************)
(* Filename domain: two filenames, the parsers applied to either, and the  *)
(* granule key of each.                                                    *)
(***************************************************************************)
G02 == <<"G", "0", "2">>

G04 == <<"G", "0", "4">>

ProductSegs == {<<G02, <<"A">>>>, <<G02, <<"B">>>>, <<G04, <<"A">>>>}

DateSeg == <<"2", "0", "1", "9", "1", "6", "2", "1", "3", "0", "9", "3", "2">>

OrbitSegs == {<<"O", "1">>, <<"O", "2", "7">>}

TwoDigitSegs == {<<"0", "1">>, <<"0", "2">>}

TrackSeg == <<"T", "4">>

PositioningSeg == <<"0", "2">>

H5 == <<".", "h", "5">>

\* e.g. GEDI02_A_2019162130932_O02806_01_T04237_02_003_01_V002.h5
LPNames ==
    { p \o <<DateSeg, o, s, TrackSeg, PositioningSeg, <<"0", "0", "3">>, g,
             <<"V", "2">> \o H5>> :
      p \in ProductSegs, o \in OrbitSegs, s \in TwoDigitSegs, g \in TwoDigitSegs }

\* e.g. GEDI04_A_2019108045816_O01962_T01066_02_001_01.h5
ORNLNames ==
    { p \o <<DateSeg, o, TrackSeg, PositioningSeg, <<"0", "0", "1">>, g \o H5>> :
      p \in ProductSegs, o \in OrbitSegs, g \in TwoDigitSegs }

\* Names that neither pattern matches, and one LP name behind a path prefix.
OtherNames ==
    { <<<<"a">>, <<"b">>>>,
      <<G02, DateSeg, <<"O", "1">>, <<"0", "1">>, TrackSeg, PositioningSeg,
        <<"0", "0", "3">>, <<"0", "1">>, <<"V", "2">>>>,
      <<G02, <<"A">>, SubSeq(DateSeg, 1, 12), <<"O", "1">>, <<"0", "1">>,
        TrackSeg, PositioningSeg, <<"0", "0", "3">>, <<"0", "1">>, <<"V", "2">>>>,
      <<G02, <<"A">>, DateSeg, <<"O", "1">>, <<"0", "1">>, TrackSeg,
        PositioningSeg, <<"0", "0", "3">>, <<"0", "1">>, <<"0", "0", "2">>>>,
      <<G04, <<"A">>, DateSeg, <<"O", "1">>, TrackSeg, PositioningSeg,
        <<"0", "1">>, <<"V", "2">> \o H5>>,
      <<<<".", "a", ".">> \o G04, <<"A">>, DateSeg, <<"O", "1">>, <<"0", "1">>,
        TrackSeg, PositioningSeg, <<"0", "0", "3">>, <<"0", "2">>,
        <<"V", "2">> \o H5>> }

FileNames == LPNames \cup ORNLNames \cup OtherNames

NotParsed == [fn |-> "none", arg |-> <<>>, res |-> [status |-> "none", rec |-> NoRecord]]

NotKeyed == [status |-> "none", key |-> NoKey]

NameStart ==
    /\ nFile \in [1..2 -> FileNames]
    /\ nParsed = NotParsed
    /\ nKey = [i \in 1..2 |-> NotKeyed]

NameIdle ==
    /\ nFile = <<>>
    /\ nParsed = NotParsed
    /\ nKey = <<>>

\* A call of parse_lp_granule_filename on one of the filenames.
ParseLP(i) ==
    /\ nParsed' = [fn |-> "lp", arg |-> nFile[i],
                   res |-> parse_lp_granule_filename(nFile[i])]
    /\ UNCHANGED <<nFile, nKey, hashVars, filterVars, joinVars, pipeVars, parseVars, shapeVars, mdVars, asmVars, entryVars, jobVars, dlVars>>

\* A call of parse_ornl_granule_filename on one of the filenames.
ParseORNL(i) ==
    /\ nParsed' = [fn |-> "ornl", arg |-> nFile[i],
                   res |-> parse_ornl_granule_filename(nFile[i])]
    /\ UNCHANGED <<nFile, nKey, hashVars, filterVars, joinVars, pipeVars, parseVars, shapeVars, mdVars, asmVars, entryVars, jobVars, dlVars>>

\* df.granule_file.map(_get_granule_key_for_filename), one filename at a time.
GetGranuleKey(i) ==
    /\ nKey[i] = NotKeyed
    /\ nKey' = [nKey EXCEPT ![i] = get_granule_key_for_filename(nFile[i])]
    /\ UNCHANGED <<nFile, nParsed, hashVars, filterVars, joinVars, pipeVars, parseVars, shapeVars, mdVars, asmVars, entryVars, jobVars, dlVars>>

NameNext ==
    \/ \E i \in 1..2 : ParseLP(i)
    \/ \E i \in 1..2 : ParseORNL(i)
    \/ \E i \in 1..2 : GetGranuleKey(i)

\* The value a filename holds at the position its grammar gives a field.
ValueAt(segs, f) ==
    IF MatchesLP(segs) THEN LPGroups(segs)[IndexOf(LPPattern, f)]
    ELSE ORNLGroups(segs)[IndexOf(ORNLPattern, f)]

\* C5: two filenames of different products with the same orbit and the same
\* sub-orbit segment get the same granule key, the pair {orbit}_{sub_orbit}.
C5_SameSegmentSameKey ==
    ( /\ nKey[1] # NotKeyed /\ nKey[2] # NotKeyed
      /\ MatchesLP(nFile[1]) /\ MatchesLP(nFile[2])
      /\ ValueAt(nFile[1], "product") # ValueAt(nFile[2], "product")
      /\ ValueAt(nFile[1], "orbit") = ValueAt(nFile[2], "orbit")
      /\ ValueAt(nFile[1], "sub_orbit_granule") = ValueAt(nFile[2], "sub_orbit_granule") )
    => /\ nKey[1].status = "ok"
       /\ nKey[1] = nKey[2]
       /\ nKey[1].key = <<ValueAt(nFile[1], "orbit"),
                          ValueAt(nFile[1], "sub_orbit_granule")>>

\* C6: for a filename of the variant without a sub-orbit segment, key
\* resolution succeeds and the key is the orbit number alone.
C6_NoSubOrbitKeyIsOrbit ==
    \A i \in 1..2 :
        (nKey[i] # NotKeyed /\ ~MatchesLP(nFile[i]) /\ MatchesORNL(nFile[i]))
        => /\ nKey[i].status = "ok"
           /\ nKey[i].key = <<ValueAt(nFile[i], "orbit")>>

\* C7: every field of a parsed metadata record holds the value found at
\* that field's position in the filename.
C7_FieldsHoldTheirPosition ==
    (nParsed.res.status = "ok")
    => \A f \in DOMAIN nParsed.res.rec :
           nParsed.res.rec[f] =
               IF nParsed.fn = "lp"
               THEN LPGroups(nParsed.arg)[IndexOf(LPPattern, f)]
               ELSE ORNLGroups(nParsed.arg)[IndexOf(ORNLPattern, f)]

\* C8: a filename that matches neither grammar makes both parsers fail with
\* ValueError, without a metadata record, and gets no granule key.
C8_MalformedFilenameFails ==
    /\ (nParsed # NotParsed /\ ~MatchesLP(nParsed.arg) /\ ~MatchesORNL(nParsed.arg))
       => (nParsed.res.status = "ValueError" /\ DOMAIN nParsed.res.rec = {})
    /\ \A i \in 1..2 :
          (nKey[i] # NotKeyed /\ ~MatchesLP(nFile[i]) /\ ~MatchesORNL(nFile[i]))
          => (nKey[i].status = "ValueError" /\ nKey[i].key = NoKey)

\* C8 witness: a filename matching neither grammar was parsed and keyed.
C8_Witness ==
    /\ ~MatchesLP(nFile[1]) /\ ~MatchesORNL(nFile[1])
    /\ nKey[1] # NotKeyed
    /\ nParsed.fn = "lp" /\ nParsed.arg = nFile[1]

(***************************************************************************)
(* Quality-filter domain.  A table is a set of column names and a sequence *)
(* of rows, each row a function on those columns.  Sensitivities are in    *)
(* hundredths (0.95 is 95); a float that may be NaN is "NaN" or a number.  *)
(* Of the columns _get_main_data_dict builds, the tables carry the shot    *)
(* number and every column a quality filter reads, adds or drops.          *)
(***************************************************************************)
\* gedi_granule.QDEGRADE
QDEGRADE == {0, 3, 8, 10, 13, 18, 20, 23, 28, 30, 33, 38, 40, 43, 48, 60, 63, 68}

Table(cols, rows) == [cols |-> cols, rows |-> rows]

\* df[name] = values: the column is added to (or replaced in) the frame.
WithColumn(t, name, values) ==
    Table(t.cols \cup {name},
          [i \in 1..Len(t.rows) |->
              [c \in t.cols \cup {name} |->
                  IF c = name THEN values[i] ELSE t.rows[i][c]]])

\* df[mask]: the rows whose entry in the boolean mask is true, in order.
SelectRows(rows, mask) ==
    LET sel[i \in 0..Len(rows)] ==
            IF i = 0 THEN <<>>
            ELSE IF mask[i] THEN Append(sel[i - 1], rows[i])
            ELSE sel[i - 1]
    IN  sel[Len(rows)]

Where(t, mask) == Table(t.cols, SelectRows(t.rows, mask))

\* df.drop(names, axis=1)
DropColumns(t, names) ==
    Table(t.cols \ names,
          [i \in 1..Len(t.rows) |-> [c \in t.cols \ names |-> t.rows[i][c]]])

\* The columns each quality filter drops at its end.
FlagsDropped(product) ==
    CASE product = "L2A" ->
            {"elevation_difference_tdx", "quality_flag", "surface_flag"}
      [] product = "L2B" ->
            {"l2a_quality_flag", "l2b_quality_flag", "algorithmrun_flag",
             "surface_flag"}
      [] product = "L4A" ->
            {"l2_quality_flag", "l4_quality_flag", "algorithm_run_flag",
             "surface_flag"}

\* The columns read to compute elevation_difference_tdx.
DerivedFrom(product) ==
    CASE product = "L2A" -> {"elev_lowestmode", "dem_tandemx"}
      [] product = "L2B" -> {"elev_lowestmode", "digital_elevation_model"}
      [] product = "L4A" -> {}

\* The columns the filter's masks read.
MaskColumns(product) ==
    CASE product = "L2A" ->
            {"quality_flag", "sensitivity_a0", "sensitivity_a2", "degrade_flag",
             "rh_100", "surface_flag", "elevation_difference_tdx"}
      [] product = "L2B" ->
            {"l2a_quality_flag", "l2b_quality_flag", "algorithmrun_flag",
             "sensitivity", "degrade_flag", "rh100", "surface_flag",
             "elevation_difference_tdx", "water_persistence",
             "urban_proportion", "cover", "pai"}
      [] product = "L4A" ->
            {"l2_quality_flag", "l4_quality_flag", "algorithm_run_flag",
             "sensitivity_a0", "sensitivity_a2", "degrade_flag", "surface_flag",
             "gridded_pft_class", "gridded_water_persistence",
             "gridded_urban_proportion"}

\* gedi_l2a.py:82-94
L2AMask(r) ==
    /\ r["quality_flag"] = 1
    /\ r["sensitivity_a0"] >= 90
    /\ r["sensitivity_a0"] <= 100
    /\ r["sensitivity_a2"] > 95
    /\ r["sensitivity_a2"] <= 100
    /\ r["degrade_flag"] \in QDEGRADE
    /\ r["rh_100"] >= 0
    /\ r["rh_100"] < 120
    /\ r["surface_flag"] = 1
    /\ r["elevation_difference_tdx"] > -150
    /\ r["elevation_difference_tdx"] < 150

\* gedi_l2b.py:133-151
L2BMask(r) ==
    /\ r["l2a_quality_flag"] = 1
    /\ r["l2b_quality_flag"] = 1
    /\ r["algorithmrun_flag"] = 1
    /\ r["sensitivity"] >= 90
    /\ r["sensitivity"] <= 100
    /\ r["degrade_flag"] \in QDEGRADE
    /\ r["rh100"] >= 0
    /\ r["rh100"] < 12000
    /\ r["surface_flag"] = 1
    /\ r["elevation_difference_tdx"] > -150
    /\ r["elevation_difference_tdx"] < 150
    /\ r["water_persistence"] < 10
    /\ r["urban_proportion"] < 50
    /\ r["cover"] # "NaN"
    /\ r["pai"] # -9999

\* gedi_l4a.py:94-103
L4AMask1(r) ==
    /\ r["l2_quality_flag"] = 1
    /\ r["l4_quality_flag"] = 1
    /\ r["algorithm_run_flag"] = 1
    /\ r["sensitivity_a0"] >= 90
    /\ r["sensitivity_a0"] <= 100
    /\ r["sensitivity_a2"] <= 100
    /\ r["degrade_flag"] \in QDEGRADE
    /\ r["surface_flag"] = 1

\* One sensitivity threshold for every PFT class.
L4AMask2Uniform(r) == r["sensitivity_a2"] > 95

\* gedi_l4a.py:104-113
L4AMask2(r) ==
    \/ (r["gridded_pft_class"] = 2 /\ r["sensitivity_a2"] > 98)
    \/ (r["gridded_pft_class"] # 2 /\ r["sensitivity_a2"] > 95)

\* gedi_l4a.py:114-117
L4AMask3(r) ==
    /\ r["gridded_water_persistence"] < 10
    /\ r["gridded_urban_proportion"] < 50

ElevationDifference(product, r) ==
    IF product = "L2A" THEN r["elev_lowestmode"] - r["dem_tandemx"]
    ELSE r["elev_lowestmode"] - r["digital_elevation_model"]

\* The frame after the derived column was assigned (L2A, L2B): the frame
\* is the beam's cached one, so the assignment changes the cache.
WithDerived(product, t) ==
    IF product = "L4A" THEN t
    ELSE WithColumn(t, "elevation_difference_tdx",
                    [i \in 1..Len(t.rows) |-> ElevationDifference(product, t.rows[i])])

\* The masks of a product applied in turn.
Masked(product, t) ==
    CASE product = "L2A" -> Where(t, [i \in 1..Len(t.rows) |-> L2AMask(t.rows[i])])
      [] product = "L2B" -> Where(t, [i \in 1..Len(t.rows) |-> L2BMask(t.rows[i])])
      [] product = "L4A" ->
            LET t1 == Where(t, [i \in 1..Len(t.rows) |-> L4AMask1(t.rows[i])])
                t2 == Where(t1, [i \in 1..Len(t1.rows) |-> L4AMask2(t1.rows[i])])
            IN  Where(t2, [i \in 1..Len(t2.rows) |-> L4AMask3(t2.rows[i])])

\* quality_filter on the cached frame t: the outcome and the frame the
\* beam's cache holds afterwards.  A column that is read or dropped and is
\* not in the frame raises KeyError; _cached_data is reassigned only at the
\* end, but the derived column is written into the cached frame before.
quality_filter(product, t) ==
    IF ~(DerivedFrom(product) \subseteq t.cols)
    THEN [status |-> "KeyError", table |-> t]
    ELSE LET d == WithDerived(product, t)
         IN  IF ~(MaskColumns(product) \subseteq d.cols)
                \/ ~(FlagsDropped(product) \subseteq d.cols)
             THEN [status |-> "KeyError", table |-> d]
             ELSE [status |-> "ok",
                   table |-> DropColumns(Masked(product, d), FlagsDropped(product))]

(***************************************************************************)
(* Quality-filter domain: one beam of one product, its raw shots, and its  *)
(* cached table (_cached_data), on which main_data, quality_filter and     *)
(* reset_cache act.                                                        *)
(***************************************************************************)
MaxRows == 2

MaxFilterCalls == 2

Products == {"L2A", "L2B", "L4A"}

L2AGood ==
    [shot_number |-> 0, quality_flag |-> 1, sensitivity_a0 |-> 96,
     sensitivity_a2 |-> 97, degrade_flag |-> 0, rh_100 |-> 30,
     surface_flag |-> 1, elev_lowestmode |-> 100, dem_tandemx |-> 90]

L2BGood ==
    [shot_number |-> 0, l2a_quality_flag |-> 1, l2b_quality_flag |-> 1,
     algorithmrun_flag |-> 1, sensitivity |-> 96, degrade_flag |-> 3,
     rh100 |-> 3000, surface_flag |-> 1, elev_lowestmode |-> 100,
     digital_elevation_model |-> 90, water_persistence |-> 0,
     urban_proportion |-> 0, cover |-> "0.5", pai |-> 2]

L4AGood ==
    [shot_number |-> 0, l2_quality_flag |-> 1, l4_quality_flag |-> 1,
     algorithm_run_flag |-> 1, sensitivity_a0 |-> 96, sensitivity_a2 |-> 97,
     degrade_flag |-> 0, surface_flag |-> 1, gridded_pft_class |-> 1,
     gridded_water_persistence |-> 0, gridded_urban_proportion |-> 0]

\* The shots a beam may hold: one that passes every test, and shots that
\* fail one test or sit on a threshold.
SampleShots(product) ==
    CASE product = "L2A" ->
            { L2AGood,
              [L2AGood EXCEPT !["quality_flag"] = 0],
              [L2AGood EXCEPT !["sensitivity_a2"] = 95],
              [L2AGood EXCEPT !["degrade_flag"] = 5],
              [L2AGood EXCEPT !["elev_lowestmode"] = 240] }
      [] product = "L2B" ->
            { L2BGood,
              [L2BGood EXCEPT !["l2b_quality_flag"] = 0],
              [L2BGood EXCEPT !["rh100"] = 12000],
              [L2BGood EXCEPT !["cover"] = "NaN"],
              [L2BGood EXCEPT !["pai"] = -9999] }
      [] product = "L4A" ->
            { L4AGood,
              [L4AGood EXCEPT !["gridded_pft_class"] = 2],
              [L4AGood EXCEPT !["gridded_pft_class"] = 2, !["sensitivity_a2"] = 99],
              [L4AGood EXCEPT !["l4_quality_flag"] = 0],
              [L4AGood EXCEPT !["gridded_urban_proportion"] = 50] }

\* The columns of a product's main data.
MainColumns(product) ==
    CASE product = "L2A" -> DOMAIN L2AGood
      [] product = "L2B" -> DOMAIN L2BGood
      [] product = "L4A" -> DOMAIN L4AGood

\* The beams of a product with up to MaxRows shots, numbered in order.
RawBeams(product) ==
    UNION { { [i \in 1..n |-> [pick[i] EXCEPT !["shot_number"] = i]] :
              pick \in [1..n -> SampleShots(product)] } : n \in 0..MaxRows }

NoTable == Table({}, <<>>)

FilterStart ==
    /\ bProduct \in Products
    /\ bRaw \in RawBeams(bProduct)
    /\ bCache = [loaded |-> FALSE, table |-> NoTable]
    /\ bLast = "none"
    /\ bCalls = 0
    /\ bOnce = NoTable

FilterIdle ==
    /\ bProduct = "L2A"
    /\ bRaw = <<>>
    /\ bCache = [loaded |-> FALSE, table |-> NoTable]
    /\ bLast = "none"
    /\ bCalls = 0
    /\ bOnce = NoTable

\* GediBeam.main_data: the cached frame, built from the file on first use.
main_data ==
    IF bCache.loaded THEN bCache.table
    ELSE Table(MainColumns(bProduct), bRaw)

\* A read of beam.main_data.
MainData ==
    /\ ~bCache.loaded
    /\ bCache' = [loaded |-> TRUE, table |-> main_data]
    /\ UNCHANGED <<bProduct, bRaw, bLast, bCalls, bOnce>>
    /\ UNCHANGED <<hashVars, nameVars, joinVars, pipeVars, parseVars, shapeVars, mdVars, asmVars, entryVars, jobVars, dlVars>>

\* A call of beam.quality_filter().
QualityFilter ==
    /\ bCalls < MaxFilterCalls
    /\ LET out == quality_filter(bProduct, main_data)
       IN  /\ bCache' = [loaded |-> TRUE, table |-> out.table]
           /\ bLast' = out.status
           /\ bOnce' = IF bCalls = 0 /\ out.status = "ok" THEN out.table ELSE bOnce
    /\ bCalls' = bCalls + 1
    /\ UNCHANGED <<bProduct, bRaw, hashVars, nameVars, joinVars, pipeVars, parseVars, shapeVars, mdVars, asmVars, entryVars, jobVars, dlVars>>

\* A call of beam.reset_cache().
ResetCache ==
    /\ bCalls > 0
    /\ bCache' = [loaded |-> FALSE, table |-> NoTable]
    /\ bLast' = "none"
    /\ bCalls' = 0
    /\ bOnce' = NoTable
    /\ UNCHANGED <<bProduct, bRaw, hashVars, nameVars, joinVars, pipeVars, parseVars, shapeVars, mdVars, asmVars, entryVars, jobVars, dlVars>>

FilterNext ==
    \/ MainData
    \/ QualityFilter
    \/ ResetCache

\* C9: a second quality_filter on an already filtered beam completes
\* without error and leaves the once-filtered table.
C9_FilterIdempotent ==
    bCalls >= 2 => (bLast = "ok" /\ bCache.table = bOnce)

\* C24: after quality filtering, the derived elevation-difference column
\* is absent from the table of the products whose filter computes it.
C24_DerivedColumnDiscarded ==
    (bLast = "ok" /\ bProduct \in {"L2A", "L2B"}) =>
        "elevation_difference_tdx" \notin bCache.table.cols

\* A product's conjunction of predicates on a shot as extracted.
Satisfies(product, r) ==
    CASE product = "L2A" ->
            /\ r["quality_flag"] = 1 /\ r["surface_flag"] = 1
            /\ r["sensitivity_a0"] \in 90..100
            /\ r["sensitivity_a2"] \in 96..100
            /\ r["degrade_flag"] \in QDEGRADE
            /\ r["rh_100"] \in 0..119
            /\ (r["elev_lowestmode"] - r["dem_tandemx"]) \in -149..149
      [] product = "L2B" ->
            /\ r["l2a_quality_flag"] = 1 /\ r["l2b_quality_flag"] = 1
            /\ r["algorithmrun_flag"] = 1 /\ r["surface_flag"] = 1
            /\ r["sensitivity"] \in 90..100
            /\ r["degrade_flag"] \in QDEGRADE
            /\ r["rh100"] \in 0..11999
            /\ (r["elev_lowestmode"] - r["digital_elevation_model"]) \in -149..149
            /\ r["water_persistence"] < 10 /\ r["urban_proportion"] < 50
            /\ r["cover"] # "NaN" /\ r["pai"] # -9999
      [] product = "L4A" ->
            /\ r["l2_quality_flag"] = 1 /\ r["l4_quality_flag"] = 1
            /\ r["algorithm_run_flag"] = 1 /\ r["surface_flag"] = 1
            /\ r["sensitivity_a0"] \in 90..100
            /\ r["sensitivity_a2"] <= 100
            /\ r["sensitivity_a2"] > (IF r["gridded_pft_class"] = 2 THEN 98 ELSE 95)
            /\ r["degrade_flag"] \in QDEGRADE
            /\ r["gridded_water_persistence"] < 10
            /\ r["gridded_urban_proportion"] < 50

\* The extracted shots that satisfy the product's predicates, in order.
SatisfyingShots ==
    SelectRows(bRaw, [i \in 1..Len(bRaw) |-> Satisfies(bProduct, bRaw[i])])

\* C26: the table after the first quality_filter of a beam consists of
\* exactly the extracted rows that satisfy the product's predicates, in
\* their original order, each with the values it was extracted with.
C26_FilterKeepsExactlySatisfying ==
    (bLast = "ok" /\ bCalls = 1) =>
        /\ Len(bCache.table.rows) = Len(SatisfyingShots)
        /\ \A i \in 1..Len(SatisfyingShots) :
               \A c \in bCache.table.cols \cap MainColumns(bProduct) :
                   bCache.table.rows[i][c] = SatisfyingShots[i][c]
        /\ "shot_number" \in bCache.table.cols

\* C26 witness: an L4A beam of PFT class 2 with a shot of sensitivity 0.97
\* and a shot of sensitivity 0.99 was filtered, and only the second is left.
C26_Witness ==
    /\ bLast = "ok"
    /\ bCalls = 1
    /\ bProduct = "L4A"
    /\ Len(bRaw) = 2
    /\ bRaw[1]["gridded_pft_class"] = 2 /\ bRaw[1]["sensitivity_a2"] = 97
    /\ bRaw[2]["gridded_pft_class"] = 2 /\ bRaw[2]["sensitivity_a2"] = 99
    /\ Len(bCache.table.rows) = 1
    /\ bCache.table.rows[1]["shot_number"] = 2

(***************************************************************************)
(* Join domain: the three filtered per-product tables of one logical       *)
(* granule, as _process_granule holds them in gdfs, and what it writes.    *)
(* A row is its shot number and the rest of its columns (its cells).       *)
(***************************************************************************)
MaxJoinRows == 2

ShotNumbers == {1, 2}

\* A table of product p whose shot numbers are nums, in that order.
ProductTable(p, nums) ==
    [i \in 1..Len(nums) |-> [shot_number |-> nums[i], cells |-> <<p, i>>]]

\* The rows of right matched by their position instead of their index.
RowsAt(right, n) ==
    SelectRows(right, [i \in 1..Len(right) |-> i = n])

\* The rows of right whose index (set_index("shot_number")) equals n.
RowsFor(right, n) ==
    SelectRows(right, [i \in 1..Len(right) |-> right[i].shot_number = n])

\* One product's share of a joined row kept as it is.
Cells(row) == row.cells

\* left.join(right.set_index("shot_number"), on="shot_number", how="inner"):
\* every pair of a left row and a right row with the same shot number, in
\* the order of the left rows.
InnerJoin(left, right) ==
    LET out[i \in 0..Len(left)] ==
            IF i = 0 THEN <<>>
            ELSE LET m == RowsFor(right, left[i].shot_number)
                 IN  out[i - 1] \o [k \in 1..Len(m) |-> <<left[i], m[k]>>]
    IN  out[Len(left)]

\* A left join in place of the inner one: left rows without a match stay,
\* paired with an all-null right row.
LeftJoin(left, right) ==
    LET out[i \in 0..Len(left)] ==
            IF i = 0 THEN <<>>
            ELSE LET m == RowsFor(right, left[i].shot_number)
                 IN  IF m = <<>>
                     THEN Append(out[i - 1],
                                 <<left[i], [shot_number |-> left[i].shot_number,
                                             cells |-> None]>>)
                     ELSE out[i - 1] \o [k \in 1..Len(m) |-> <<left[i], m[k]>>]
    IN  out[Len(left)]

\* The join one step of _process_granule uses.
JoinStep(left, right) == InnerJoin(left, right)

\* data_setup.py:215-232: L2A joined with L2B, the result joined with L4A.
JoinProducts(t) ==
    LET ab == JoinStep(t["L2A"], t["L2B"])
        first == [i \in 1..Len(ab) |->
                     [shot_number |-> ab[i][1].shot_number,
                      level2A |-> Cells(ab[i][1]), level2B |-> Cells(ab[i][2])]]
        abc == JoinStep(first, t["L4A"])
    IN  [i \in 1..Len(abc) |->
            [shot_number |-> abc[i][1].shot_number,
             level2A |-> abc[i][1].level2A, level2B |-> abc[i][1].level2B,
             level4A |-> Cells(abc[i][2])]]

\* data_setup.py:174-243 for tables already parsed and filtered: an empty
\* table makes the function write it as a placeholder and return.
ProcessTables(t) ==
    IF \E p \in Products : t[p] = <<>>
    THEN [kind |-> "placeholder", rows |-> <<>>]
    ELSE [kind |-> "joined", rows |-> JoinProducts(t)]

ShotLists == UNION { [1..n -> ShotNumbers] : n \in 0..MaxJoinRows }

NotProcessed == [kind |-> "none", rows |-> <<>>]

JoinStart ==
    /\ jTables \in { [p \in Products |-> ProductTable(p, pick[p])] :
                     pick \in [Products -> ShotLists] }
    /\ jOut = NotProcessed

JoinIdle ==
    /\ jTables = <<>>
    /\ jOut = NotProcessed

\* _process_granule on a granule whose artifact does not exist yet.
ProcessGranuleJoin ==
    /\ jOut = NotProcessed
    /\ jOut' = ProcessTables(jTables)
    /\ UNCHANGED <<jTables, hashVars, nameVars, filterVars, pipeVars, parseVars, shapeVars, mdVars, asmVars, entryVars, jobVars, dlVars>>

JoinNext == ProcessGranuleJoin

ShotsOf(t) == { t[i].shot_number : i \in 1..Len(t) }

UniqueShots(t) == \A i, j \in 1..Len(t) : t[i].shot_number = t[j].shot_number => i = j

MinRows == CHOOSE n \in { Len(jTables[p]) : p \in Products } :
               \A p \in Products : n <= Len(jTables[p])

CommonShots ==
    { n \in ShotNumbers : \A p \in Products : n \in ShotsOf(jTables[p]) }

\* The row of shot number n in the table of product p.
RowOf(p, n) ==
    jTables[p][CHOOSE i \in 1..Len(jTables[p]) : jTables[p][i].shot_number = n]

\* C27: when the shot numbers are unique within each of the three tables,
\* every shot number present in all three appears in exactly one row of the
\* joined table, and that row holds the shot's columns of each product.
C27_JoinKeepsCommonShots ==
    (jOut.kind = "joined" /\ \A p \in Products : UniqueShots(jTables[p])) =>
        \A n \in CommonShots :
            \E i \in 1..Len(jOut.rows) :
                /\ jOut.rows[i] = [shot_number |-> n,
                                   level2A |-> Cells(RowOf("L2A", n)),
                                   level2B |-> Cells(RowOf("L2B", n)),
                                   level4A |-> Cells(RowOf("L4A", n))]
                /\ \A j \in 1..Len(jOut.rows) :
                       jOut.rows[j].shot_number = n => j = i

\* C27 witness: three tables of two shots each, in different orders, were
\* joined and both shots are in the result.
C27_Witness ==
    /\ jOut.kind = "joined"
    /\ \A p \in Products : UniqueShots(jTables[p])
    /\ Cardinality(CommonShots) = 2
    /\ jTables["L2A"][1].shot_number # jTables["L2B"][1].shot_number
    /\ Len(jOut.rows) = 2

(***************************************************************************)
(* Pipeline: the runs of exec_spark, their per-granule tasks               *)
(* (_process_granule, then _write_db), the artifact files and the two      *)
(* database tables.  ledger and shots hold the committed rows only.        *)
(***************************************************************************)
MaxRuns == 2

MaxShots == 2

RunIds == 1..MaxRuns

\* Granule keys as _get_granule_key_for_filename returns them.
GranuleKeys == { <<"O", "1", "_", "0", "1">>, <<"O", "2", "_", "0", "1">> }

\* The three files of a key, in the order groupByKey hands them over.
GranuleFiles(k) ==
    << <<"G", "0", "4", "_", "A", "_">> \o k,
       <<"G", "0", "2", "_", "A", "_">> \o k,
       <<"G", "0", "2", "_", "B", "_">> \o k >>

\* What parsing, filtering and joining the files of a granule comes to:
\* an exception, an empty table, or a table of joined shots.
Outcomes ==
    { [parse |-> "error", rows |-> 0], [parse |-> "empty", rows |-> 0] }
        \cup { [parse |-> "ok", rows |-> n] : n \in 1..MaxShots }

\* data_setup.py:165-169: the artifact's path.
OutfilePath(granule_key, included_files) ==
    <<"filtered_l2ab_l4a", granule_key, hash_string_list(included_files)>>

\* included_files and the artifact's path for each key.
IncludedFilesOf == [k \in GranuleKeys |-> IncludedFiles(GranuleFiles(k))]

Paths == [k \in GranuleKeys |-> OutfilePath(k, IncludedFilesOf[k])]

PathOf(k) == Paths[k]

Absent == [kind |-> "absent", rows |-> 0]

Corrupt == [kind |-> "corrupt", rows |-> 0]

Parquet(n) == [kind |-> "parquet", rows |-> n]

NoRun == [state |-> "new", existing |-> {}, dry_run |-> FALSE]

NoTask == [pc |-> "none", data |-> 0,
           pending_ledger |-> {}, pending_shots |-> {}]

TaskIds == RunIds \X GranuleKeys

PipeStart ==
    /\ ledger = {}
    /\ shots = {}
    /\ artifacts = [p \in { PathOf(k) : k \in GranuleKeys } |-> Absent]
    /\ runs = [r \in RunIds |-> NoRun]
    /\ tasks = [t \in TaskIds |-> NoTask]
    /\ inputs \in [GranuleKeys -> Outcomes]

PipeIdle ==
    /\ ledger = {}
    /\ shots = {}
    /\ artifacts = <<>>
    /\ runs = <<>>
    /\ tasks = <<>>
    /\ inputs = <<>>

\* _get_granule_metadata: the keys with a complete product set.
GranuleMetadata == GranuleKeys

\* SELECT granule_name FROM gedi_granules
ExistingGranules == { row.granule_name : row \in ledger }

\* The metadata with every key left in, whatever the ledger holds.
AllGranules(required, existing) == required

\* required_granules[~required_granules.granule_key.isin(existing)]
RequiredGranules(required, existing) == required \ existing

\* exec_spark up to the start of the Spark job: the work list of run r.
ExecSpark(r, dry_run) ==
    /\ runs[r].state = "new"
    /\ \A q \in RunIds : q < r => runs[q].state # "new"
    /\ LET existing == ExistingGranules
           required == RequiredGranules(GranuleMetadata, existing)
       IN  /\ runs' = [runs EXCEPT ![r] = [state |-> "started",
                                            existing |-> existing,
                                            dry_run |-> dry_run]]
           /\ tasks' = [t \in TaskIds |->
                           IF t[1] = r /\ t[2] \in required /\ ~dry_run
                           THEN [NoTask EXCEPT !.pc = "process"]
                           ELSE tasks[t]]
    /\ UNCHANGED <<ledger, shots, artifacts, inputs>>
    /\ UNCHANGED <<hashVars, nameVars, filterVars, joinVars, parseVars, shapeVars, mdVars, asmVars, entryVars, jobVars, dlVars>>

\* _process_granule on the files of key k in run r.
ProcessGranule(r, k) ==
    /\ tasks[<<r, k>>].pc = "process"
    /\ IF artifacts[PathOf(k)] # Absent
       THEN /\ tasks' = [tasks EXCEPT ![<<r, k>>].pc = "write"]
            /\ UNCHANGED artifacts
       ELSE IF inputs[k].parse = "error"
       THEN /\ tasks' = [tasks EXCEPT ![<<r, k>>].pc = "failed"]
            /\ UNCHANGED artifacts
       ELSE /\ artifacts' = [artifacts EXCEPT ![PathOf(k)] = Parquet(inputs[k].rows)]
            /\ tasks' = [tasks EXCEPT ![<<r, k>>].pc = "write"]
    /\ UNCHANGED <<ledger, shots, runs, inputs>>
    /\ UNCHANGED <<hashVars, nameVars, filterVars, joinVars, parseVars, shapeVars, mdVars, asmVars, entryVars, jobVars, dlVars>>

\* _process_granule whose worker dies while to_parquet writes the artifact.
ProcessGranuleInterrupted(r, k) ==
    /\ tasks[<<r, k>>].pc = "process"
    /\ artifacts[PathOf(k)] = Absent
    /\ inputs[k].parse = "ok"
    /\ artifacts' = [artifacts EXCEPT ![PathOf(k)] = Corrupt]
    /\ tasks' = [tasks EXCEPT ![<<r, k>>].pc = "failed"]
    /\ UNCHANGED <<ledger, shots, runs, inputs>>
    /\ UNCHANGED <<hashVars, nameVars, filterVars, joinVars, parseVars, shapeVars, mdVars, asmVars, entryVars, jobVars, dlVars>>

\* The ledger row _write_db builds (data_setup.py:272-282).
granule_entry(granule_key, outfile_name, included_files, utcnow) ==
    [granule_name |-> granule_key,
     granule_hash |-> hash_string_list(included_files),
     granule_file |-> outfile_name,
     l2a_file |-> included_files[1],
     l2b_file |-> included_files[2],
     l4a_file |-> included_files[3],
     created_date |-> utcnow]

\* The ledger row of task <<r, k>>.  created_date is the moment of the
\* call, which tells the calls apart: the model holds the calling task in
\* its place.
GranuleEntry(r, k) ==
    granule_entry(k, PathOf(k), IncludedFilesOf[k], <<r, k>>)

\* The shot rows of the artifact read by task <<r, k>>.
ShotRows(r, k, n) ==
    { [granule |-> k, shot |-> i, written_by |-> <<r, k>>] : i \in 1..n }

\* An insert that is committed on its own, outside the transaction.
to_sql_autocommit(committed, pending, rows) ==
    [committed |-> committed \cup rows, pending |-> pending]

\* DataFrame.to_sql(con=conn, if_exists="append") on the connection of the
\* open transaction: the rows are pending until the commit.
to_sql(committed, pending, rows) ==
    [committed |-> committed, pending |-> pending \cup rows]

\* GeoDataFrame.to_postgis(con=conn, if_exists="append"), likewise.
to_postgis(committed, pending, rows) ==
    [committed |-> committed, pending |-> pending \cup rows]

\* A removal that leaves the file where it is.
os_remove_skipped(files, path) == files

\* os.remove(outfile_path)
os_remove(files, path) == [files EXCEPT ![path] = Absent]

\* A frame that never counts as empty.
never_empty(gedi_data) == FALSE

\* gedi_data.empty
empty(gedi_data) == gedi_data.rows = 0

\* _write_db up to and including granule_entry.to_sql(...), the first
\* statement of the transaction (data_setup.py:257-289).
WriteDb(r, k) ==
    /\ tasks[<<r, k>>].pc = "write"
    /\ LET file == artifacts[PathOf(k)]
           out == to_sql(ledger, tasks[<<r, k>>].pending_ledger, {GranuleEntry(r, k)})
       IN  CASE file = Absent ->
                   \* read_parquet raises FileNotFoundError
                   /\ tasks' = [tasks EXCEPT ![<<r, k>>].pc = "failed"]
                   /\ UNCHANGED <<artifacts, ledger>>
             [] file = Corrupt ->
                   /\ artifacts' = os_remove(artifacts, PathOf(k))
                   /\ tasks' = [tasks EXCEPT ![<<r, k>>].pc = "done"]
                   /\ UNCHANGED ledger
             [] file.kind = "parquet" /\ empty(file) ->
                   /\ tasks' = [tasks EXCEPT ![<<r, k>>].pc = "done"]
                   /\ UNCHANGED <<artifacts, ledger>>
             [] file.kind = "parquet" /\ ~empty(file) ->
                   /\ ledger' = out.committed
                   /\ tasks' = [tasks EXCEPT ![<<r, k>>].pc = "ledger_inserted",
                                             ![<<r, k>>].data = file.rows,
                                             ![<<r, k>>].pending_ledger = out.pending]
                   /\ UNCHANGED artifacts
    /\ UNCHANGED <<shots, runs, inputs>>
    /\ UNCHANGED <<hashVars, nameVars, filterVars, joinVars, parseVars, shapeVars, mdVars, asmVars, entryVars, jobVars, dlVars>>

\* gedi_data.to_postgis(...) inside the transaction.
InsertShots(r, k) ==
    /\ tasks[<<r, k>>].pc = "ledger_inserted"
    /\ LET out == to_postgis(shots, tasks[<<r, k>>].pending_shots,
                             ShotRows(r, k, tasks[<<r, k>>].data))
       IN  /\ shots' = out.committed
           /\ tasks' = [tasks EXCEPT ![<<r, k>>].pc = "shots_inserted",
                                     ![<<r, k>>].pending_shots = out.pending]
    /\ UNCHANGED <<ledger, artifacts, runs, inputs>>
    /\ UNCHANGED <<hashVars, nameVars, filterVars, joinVars, parseVars, shapeVars, mdVars, asmVars, entryVars, jobVars, dlVars>>

\* The gedi_granules table of gedidb_schema: append-only, with the columns
\* of GranuleEntry and no key constraint, so it accepts every row.
GranulesTableAccepts(committed, rows) == TRUE

\* conn.commit(): the pending rows of both tables become committed at once;
\* rows the table does not accept fail the transaction as a whole.
Commit(r, k) ==
    /\ tasks[<<r, k>>].pc = "shots_inserted"
    /\ IF GranulesTableAccepts(ledger, tasks[<<r, k>>].pending_ledger)
       THEN /\ ledger' = ledger \cup tasks[<<r, k>>].pending_ledger
            /\ shots' = shots \cup tasks[<<r, k>>].pending_shots
            /\ tasks' = [tasks EXCEPT ![<<r, k>>].pc = "done",
                                      ![<<r, k>>].pending_ledger = {},
                                      ![<<r, k>>].pending_shots = {}]
       ELSE /\ tasks' = [tasks EXCEPT ![<<r, k>>].pc = "rolled_back",
                                      ![<<r, k>>].pending_ledger = {},
                                      ![<<r, k>>].pending_shots = {}]
            /\ UNCHANGED <<ledger, shots>>
    /\ UNCHANGED <<artifacts, runs, inputs>>
    /\ UNCHANGED <<hashVars, nameVars, filterVars, joinVars, parseVars, shapeVars, mdVars, asmVars, entryVars, jobVars, dlVars>>

\* An exception inside the with-block after the ledger insert, or the
\* death of the worker or of its connection there: the transaction is
\* rolled back, its pending rows lost.
Rollback(r, k) ==
    /\ tasks[<<r, k>>].pc \in {"ledger_inserted", "shots_inserted"}
    /\ tasks' = [tasks EXCEPT ![<<r, k>>].pc = "rolled_back",
                              ![<<r, k>>].pending_ledger = {},
                              ![<<r, k>>].pending_shots = {}]
    /\ UNCHANGED <<ledger, shots, artifacts, runs, inputs>>
    /\ UNCHANGED <<hashVars, nameVars, filterVars, joinVars, parseVars, shapeVars, mdVars, asmVars, entryVars, jobVars, dlVars>>

Next ==
    \/ \E r \in RunIds, dry_run \in BOOLEAN : ExecSpark(r, dry_run)
    \/ \E r \in RunIds, k \in GranuleKeys : ProcessGranule(r, k)
    \/ \E r \in RunIds, k \in GranuleKeys : ProcessGranuleInterrupted(r, k)
    \/ \E r \in RunIds, k \in GranuleKeys : WriteDb(r, k)
    \/ \E r \in RunIds, k \in GranuleKeys : InsertShots(r, k)
    \/ \E r \in RunIds, k \in GranuleKeys : Commit(r, k)
    \/ \E r \in RunIds, k \in GranuleKeys : Rollback(r, k)

\* A data directory in which an earlier, interrupted run left the artifact
\* of one granule unreadable; the other granule has no shots to contribute.
CorruptKey == CHOOSE k \in GranuleKeys : \A j \in GranuleKeys : k = j \/ StrLess(k, j)

ResumeStart ==
    /\ ledger = {}
    /\ shots = {}
    /\ artifacts = [p \in { PathOf(k) : k \in GranuleKeys } |->
                       IF p = PathOf(CorruptKey) THEN Corrupt ELSE Absent]
    /\ runs = [r \in RunIds |-> NoRun]
    /\ tasks = [t \in TaskIds |-> NoTask]
    /\ inputs \in { f \in [GranuleKeys -> Outcomes] :
                       \A k \in GranuleKeys :
                           (f[k].parse = "ok") <=> (k = CorruptKey) }

LedgerRowsBy(t) == { row \in ledger : row.created_date = t }

ShotRowsBy(t) == { row \in shots : row.written_by = t }

\* C1: for every execution of _write_db on a non-empty artifact, also one
\* rolled back at any point after the ledger insert, the committed tables
\* hold either its ledger row and all of its shot rows, or none of them.
C1_WriteIsAtomic ==
    \A t \in TaskIds :
        \/ LedgerRowsBy(t) = {} /\ ShotRowsBy(t) = {}
        \/ /\ LedgerRowsBy(t) = {GranuleEntry(t[1], t[2])}
           /\ tasks[t].data > 0
           /\ ShotRowsBy(t) = ShotRows(t[1], t[2], tasks[t].data)

\* C1 witness: one _write_db was rolled back after its ledger insert and
\* left no row, and another committed its ledger row and its shot rows.
C1_Witness ==
    \E t, u \in TaskIds :
        /\ tasks[t].pc = "rolled_back"
        /\ LedgerRowsBy(t) = {} /\ ShotRowsBy(t) = {}
        /\ tasks[u].pc = "done"
        /\ LedgerRowsBy(u) # {} /\ ShotRowsBy(u) # {}

\* C2: a run of exec_spark adds no ledger row and no shot row for a granule
\* key that had a ledger row when the run read the ledger.
C2_RerunIsNoOp ==
    \A r \in RunIds : \A k \in runs[r].existing :
        /\ tasks[<<r, k>>].pc = "none"
        /\ LedgerRowsBy(<<r, k>>) = {}
        /\ ShotRowsBy(<<r, k>>) = {}

\* C2 witness: a run found a ledgered key, worked through its other keys,
\* and the ledgered key still has its one ledger row.
C2_Witness ==
    \E r \in RunIds : \E k \in runs[r].existing :
        /\ ~runs[r].dry_run
        /\ \A j \in GranuleKeys : tasks[<<r, j>>].pc \notin {"process", "write",
                                                           "ledger_inserted", "shots_inserted"}
        /\ \E j \in GranuleKeys : tasks[<<r, j>>].pc = "done" /\ LedgerRowsBy(<<r, j>>) # {}
        /\ Cardinality({ row \in ledger : row.granule_name = k }) = 1

\* C17: a _write_db that cannot deserialize the artifact deletes the file
\* and writes nothing to the ledger or the shot table; a later run whose
\* ledger read finds no row of the key puts the key on its work list, and a
\* _process_granule that finds no artifact does not take the cache-hit
\* path: it writes the artifact anew or fails.
C17_CorruptArtifactReverts ==
    [][\A r \in RunIds, k \in GranuleKeys :
          LET t == <<r, k>>
          IN  /\ (/\ tasks[t].pc = "write"
                  /\ tasks'[t].pc # "write"
                  /\ artifacts[PathOf(k)] = Corrupt)
                     => /\ artifacts'[PathOf(k)] = Absent
                        /\ ledger' = ledger
                        /\ shots' = shots
                        /\ tasks'[t].pc = "done"
                        /\ tasks'[t].pending_ledger = {}
                        /\ tasks'[t].pending_shots = {}
              /\ (/\ runs[r].state = "new"
                  /\ runs'[r].state = "started"
                  /\ ~runs'[r].dry_run
                  /\ k \notin ExistingGranules)
                     => tasks'[t].pc = "process"
              /\ (/\ tasks[t].pc = "process"
                  /\ tasks'[t].pc # "process"
                  /\ artifacts[PathOf(k)] = Absent)
                     => \/ /\ tasks'[t].pc = "write"
                           /\ artifacts'[PathOf(k)] = Parquet(inputs[k].rows)
                        \/ tasks'[t].pc = "failed"
      ]_vars

\* C17 witness: the _write_db of the first run found the artifact corrupt
\* and left no row; the second run has computed the artifact anew and
\* committed the granule.
C17_Witness ==
    /\ tasks[<<1, CorruptKey>>].pc = "done"
    /\ LedgerRowsBy(<<1, CorruptKey>>) = {}
    /\ ShotRowsBy(<<1, CorruptKey>>) = {}
    /\ tasks[<<2, CorruptKey>>].pc = "done"
    /\ LedgerRowsBy(<<2, CorruptKey>>) # {}
    /\ artifacts[PathOf(CorruptKey)] = Parquet(inputs[CorruptKey].rows)

\* C18: a _write_db that reads an artifact with zero rows ends without an
\* error, and the shot table gets no row of that granule, committed or
\* pending.
C18_EmptyArtifactWritesNoShots ==
    \A t \in TaskIds :
        artifacts[PathOf(t[2])] = Parquet(0) =>
            /\ tasks[t].pc \notin {"failed", "rolled_back"}
            /\ tasks[t].pending_shots = {}
            /\ { row \in shots : row.granule = t[2] } = {}

\* C18 witness: a _write_db has returned on an artifact with zero rows
\* while the shot table holds the rows of another granule.
C18_Witness ==
    \E t \in TaskIds :
        /\ tasks[t].pc = "done"
        /\ artifacts[PathOf(t[2])] = Parquet(0)
        /\ shots # {}
        /\ { row \in shots : row.granule = t[2] } = {}

\* C29: a granule whose assembled table is empty never gets a ledger row or
\* a shot row, pending or committed; every run that is not a dry run puts
\* its key on the work list; a _process_granule of a run that comes after a
\* run which has dealt with the key finds the placeholder artifact and
\* leaves it as it is, and the _write_db that reads the placeholder returns
\* without writing to the ledger or the shot table.
C29_EmptyGranuleIsTakenUpEveryRun ==
    /\ [](\A k \in GranuleKeys :
             inputs[k].parse = "empty" =>
                 /\ { row \in ledger : row.granule_name = k } = {}
                 /\ { row \in shots : row.granule = k } = {}
                 /\ \A r \in RunIds : /\ tasks[<<r, k>>].pending_ledger = {}
                                      /\ tasks[<<r, k>>].pending_shots = {})
    /\ [][\A r \in RunIds, k \in GranuleKeys :
             inputs[k].parse = "empty" =>
                 /\ (/\ runs[r].state = "new"
                     /\ runs'[r].state = "started"
                     /\ ~runs'[r].dry_run)
                        => tasks'[<<r, k>>].pc = "process"
                 /\ (/\ tasks[<<r, k>>].pc = "process"
                     /\ tasks'[<<r, k>>].pc # "process"
                     /\ \E q \in RunIds : q < r /\ tasks[<<q, k>>].pc = "done")
                        => /\ artifacts[PathOf(k)] = Parquet(0)
                           /\ artifacts' = artifacts
                           /\ tasks'[<<r, k>>].pc = "write"
                 /\ (/\ tasks[<<r, k>>].pc = "write"
                     /\ tasks'[<<r, k>>].pc # "write"
                     /\ artifacts[PathOf(k)] = Parquet(0))
                        => /\ tasks'[<<r, k>>].pc = "done"
                           /\ ledger' = ledger
                           /\ shots' = shots
                           /\ artifacts' = artifacts
         ]_vars

\* C29 witness: two runs have each worked through a granule with an empty
\* table, the second one after the first had committed the other granule;
\* the placeholder is at the path and the ledger has no row of the key.
C29_Witness ==
    \E k, j \in GranuleKeys :
        /\ inputs[k].parse = "empty"
        /\ tasks[<<1, k>>].pc = "done"
        /\ tasks[<<2, k>>].pc = "done"
        /\ j \in runs[2].existing
        /\ artifacts[PathOf(k)] = Parquet(0)
        /\ { row \in ledger : row.granule_name = k } = {}

\* A database in which an earlier run has ingested one granule from an
\* older release of its three files: the ledger row carries the key, the
\* hash of those file names and their artifact; the catalogue now lists the
\* files of GranuleFiles for the key.
StaleKey == CHOOSE k \in GranuleKeys : \A j \in GranuleKeys : k = j \/ StrLess(k, j)

StaleFiles == [i \in 1..3 |-> GranuleFiles(StaleKey)[i] \o <<"_", "V", "1">>]

StaleRow ==
    granule_entry(StaleKey, OutfilePath(StaleKey, IncludedFiles(StaleFiles)),
                  IncludedFiles(StaleFiles), <<0, StaleKey>>)

StaleStart ==
    /\ ledger = {StaleRow}
    /\ shots = { [granule |-> StaleKey, shot |-> 1, written_by |-> <<0, StaleKey>>] }
    /\ artifacts = [p \in { PathOf(k) : k \in GranuleKeys } |-> Absent]
    /\ runs = [r \in RunIds |-> NoRun]
    /\ tasks = [t \in TaskIds |-> NoTask]
    /\ inputs \in [GranuleKeys -> Outcomes]

\* C28: a run takes a key with a ledger row off its work list by the key
\* alone: the key ingested from an older release of its files, whose
\* recorded hash differs from the hash of the files now listed, is never
\* processed again and its ledger row stays the only one of the key.
C28_LedgeredKeySkippedWhateverTheHash ==
    /\ StaleRow.granule_hash # hash_string_list(IncludedFilesOf[StaleKey])
    /\ { row \in ledger : row.granule_name = StaleKey } = {StaleRow}
    /\ artifacts[PathOf(StaleKey)] = Absent
    /\ \A r \in RunIds :
           /\ tasks[<<r, StaleKey>>].pc = "none"
           /\ runs[r].state = "started" => StaleKey \in runs[r].existing

\* C28 witness: a run that is not a dry run has started over the ledger with
\* the row of the older release, has ingested the other granule, and has
\* left the key of the older release alone.
C28_Witness ==
    \E r \in RunIds, j \in GranuleKeys :
        /\ runs[r].state = "started"
        /\ ~runs[r].dry_run
        /\ StaleKey \in runs[r].existing
        /\ StaleRow.granule_hash # GranuleEntry(r, StaleKey).granule_hash
        /\ j # StaleKey
        /\ tasks[<<r, j>>].pc = "done"
        /\ LedgerRowsBy(<<r, j>>) # {}
        /\ tasks[<<r, StaleKey>>].pc = "none"

\* The states of a task whose worker has failed.
FailedStates == {"failed", "rolled_back"}

\* C22 (as stated): a task whose worker failed has no committed ledger row
\* (or shot row), and a later run's _process_granule of the same key finds
\* no artifact to resume from: it parses and joins the files again.
C22_FailedGranuleRedoneInFull ==
    /\ [](\A t \in TaskIds :
             tasks[t].pc \in FailedStates
                 => (LedgerRowsBy(t) = {} /\ ShotRowsBy(t) = {}))
    /\ [][\A r, q \in RunIds, k \in GranuleKeys :
             (/\ r < q
              /\ tasks[<<r, k>>].pc \in FailedStates
              /\ tasks[<<q, k>>].pc = "process"
              /\ tasks'[<<q, k>>].pc # "process")
                 => artifacts[PathOf(k)] = Absent
       ]_vars

\* C22 (amended): a task whose worker failed before its commit has no
\* committed ledger row or shot row; a later run that reads a ledger
\* without a row of the key takes the key up again; its _process_granule
\* parses and joins again only when no artifact is at the path, and
\* otherwise returns the artifact that is there, whole or unreadable.
C22_FailedGranuleTakenUpAgain ==
    /\ [](\A t \in TaskIds :
             tasks[t].pc \in FailedStates
                 => (LedgerRowsBy(t) = {} /\ ShotRowsBy(t) = {}))
    /\ [][\A r, q \in RunIds, k \in GranuleKeys :
             (r < q /\ tasks[<<r, k>>].pc \in FailedStates) =>
                 /\ (/\ runs[q].state = "new"
                     /\ runs'[q].state = "started"
                     /\ ~runs'[q].dry_run
                     /\ k \notin ExistingGranules)
                        => tasks'[<<q, k>>].pc = "process"
                 /\ (/\ tasks[<<q, k>>].pc = "process"
                     /\ tasks'[<<q, k>>].pc # "process")
                        => IF artifacts[PathOf(k)] = Absent
                           THEN \/ tasks'[<<q, k>>].pc = "failed"
                                \/ artifacts'[PathOf(k)] = Parquet(inputs[k].rows)
                           ELSE /\ tasks'[<<q, k>>].pc = "write"
                                /\ artifacts' = artifacts
       ]_vars

\* C22 witness: the first run's write of a granule was rolled back after
\* its artifact had been written; the second run has ingested the granule.
C22_Witness ==
    \E k \in GranuleKeys :
        /\ tasks[<<1, k>>].pc = "rolled_back"
        /\ LedgerRowsBy(<<1, k>>) = {}
        /\ tasks[<<2, k>>].pc = "done"
        /\ LedgerRowsBy(<<2, k>>) # {}

MaxBeams == 2

\* The array-valued columns (their names end in "_z").
ArrayColumns == {"cover_z", "pai_z", "pavd_z"}

\* GediBeam._arr_to_str
arr_to_str(arr) == <<"{", arr, "}">>

\* GediBeam.sql_format_arrays on the cached frame.
sql_format_arrays(t) ==
    Table(t.cols,
          [i \in 1..Len(t.rows) |->
              [c \in t.cols |-> IF c \in ArrayColumns THEN arr_to_str(t.rows[i][c])
                                ELSE t.rows[i][c]]])

\* The flag each product's filter tests first.
QualityColumn(product) ==
    CASE product = "L2A" -> "quality_flag"
      [] product = "L2B" -> "l2b_quality_flag"
      [] product = "L4A" -> "l4_quality_flag"

GoodShot(product) ==
    CASE product = "L2A" -> L2AGood
      [] product = "L2B" -> L2BGood
      [] product = "L4A" -> L4AGood

\* Beams a file may hold: one whose shot passes the filter, one whose shot
\* fails it, and one whose group lacks a required dataset.
SampleBeams(product) ==
    { [cols |-> MainColumns(product), shot |-> GoodShot(product)],
      [cols |-> MainColumns(product),
       shot |-> [GoodShot(product) EXCEPT ![QualityColumn(product)] = 0]],
      [cols |-> MainColumns(product) \ {"degrade_flag"}, shot |-> GoodShot(product)] }

\* The files: up to MaxBeams beams, the shot of beam i numbered i.
GranuleBeams(product) ==
    UNION { { [i \in 1..n |-> [cols |-> pick[i].cols,
                               rows |-> << [c \in pick[i].cols |->
                                               IF c = "shot_number" THEN i
                                               ELSE pick[i].shot[c]] >>]] :
              pick \in [1..n -> SampleBeams(product)] } : n \in 0..MaxBeams }

\* The body of the try block for one beam: main_data reads every dataset
\* of the product and raises KeyError for one the group lacks.
ParseBeam(product, beam, filter) ==
    IF ~(MainColumns(product) \subseteq beam.cols)
    THEN [status |-> "KeyError", table |-> NoTable]
    ELSE LET raw == Table(MainColumns(product), beam.rows)
             out == IF filter THEN quality_filter(product, raw)
                    ELSE [status |-> "ok", table |-> raw]
         IN  IF out.status # "ok" THEN [status |-> out.status, table |-> NoTable]
             ELSE [status |-> "ok", table |-> sql_format_arrays(out.table)]

\* granule_data after the loop: the frames of the beams that raised nothing.
GranuleData(product, beams, filter) ==
    LET acc[i \in 0..Len(beams)] ==
            IF i = 0 THEN <<>>
            ELSE LET b == ParseBeam(product, beams[i], filter)
                 IN  IF b.status = "ok" THEN Append(acc[i - 1], b.table)
                     ELSE acc[i - 1]
    IN  acc[Len(beams)]

\* pd.concat(frames, ignore_index=True): the rows one after the other.
Concat(frames) ==
    LET acc[i \in 0..Len(frames)] ==
            IF i = 0 THEN <<>> ELSE acc[i - 1] \o frames[i].rows
    IN  acc[Len(frames)]

\* granule_parser._parse: pd.concat of an empty list raises ValueError.
parse(product, beams, filter) ==
    LET granule_data == GranuleData(product, beams, filter)
    IN  IF granule_data = <<>>
        THEN [status |-> "ValueError", rows |-> <<>>, filter |-> filter]
        ELSE [status |-> "ok", rows |-> Concat(granule_data), filter |-> filter]

NotParsedYet == [status |-> "none", rows |-> <<>>, filter |-> TRUE]

ParseStart ==
    /\ gProduct \in Products
    /\ gBeams \in GranuleBeams(gProduct)
    /\ gOut = NotParsedYet

ParseIdle ==
    /\ gProduct = "L2A"
    /\ gBeams = <<>>
    /\ gOut = NotParsedYet

\* parse_file(product, file, quality_filter)
ParseFile(filter) ==
    /\ gOut = NotParsedYet
    /\ gOut' = parse(gProduct, gBeams, filter)
    /\ UNCHANGED <<gProduct, gBeams>>
    /\ UNCHANGED <<hashVars, nameVars, filterVars, joinVars, pipeVars, shapeVars, mdVars, asmVars, entryVars, jobVars, dlVars>>

ParseNext == \E filter \in BOOLEAN : ParseFile(filter)

\* The beams of the file that lack a required dataset.
FailingBeams == { i \in 1..Len(gBeams) : ~(MainColumns(gProduct) \subseteq gBeams[i].cols) }

\* The shots of the other beams that the call keeps.
RemainingShots ==
    { i \in 1..Len(gBeams) \ FailingBeams :
        ~gOut.filter \/ gBeams[i].rows[1][QualityColumn(gProduct)] = 1 }

\* C11: when some beams of a file lack a required field, _parse does not
\* abort the file and returns exactly the rows of the remaining beams.
C11_SkipsFailingBeams ==
    (gOut # NotParsedYet /\ FailingBeams # {}) =>
        /\ gOut.status = "ok"
        /\ { gOut.rows[i].shot_number : i \in 1..Len(gOut.rows) } = RemainingShots
        /\ Len(gOut.rows) = Cardinality(RemainingShots)

(***************************************************************************)
(* Shape domain: common/shape_parser.py.  Coordinates are whole degrees.   *)
(* A ring is its number of coordinates (the closing one included) and its  *)
(* winding; a polygon is its exterior ring, its interior rings, the closed *)
(* boxes whose union it fills (boxes) and the open boxes cut out of it     *)
(* (holes).  A box is <<minx, miny, maxx, maxy>>.  A row of a frame is a   *)
(* polygon (one part) or a multipolygon (multi, several parts).            *)
(***************************************************************************)
Ring(n, ccw) == [n |-> n, ccw |-> ccw]

\* A rectangle with rectangular holes; extra is the number of further
\* coordinates lying on the edges of its exterior ring.
RectPolygon(box, holes, ext_ccw, hole_ccw, extra) ==
    [exterior |-> Ring(5 + extra, ext_ccw),
     interiors |-> [i \in 1..Len(holes) |-> Ring(5, hole_ccw)],
     boxes |-> {box},
     holes |-> { holes[i] : i \in 1..Len(holes) }]

PolygonRow(poly) == [multi |-> FALSE, parts |-> <<poly>>]

MultiPolygonRow(polys) == [multi |-> TRUE, parts |-> polys]

\* Sum of f over 1..Len(f).
RECURSIVE SumSeq(_)
SumSeq(f) == IF f = <<>> THEN 0 ELSE f[1] + SumSeq(Tail(f))

\* A count that adds the coordinates of the interior rings as well.
get_n_coords_all_rings(shp) ==
    SumSeq([r \in 1..Len(shp) |->
               SumSeq([k \in 1..Len(shp[r].parts) |->
                          shp[r].parts[k].exterior.n
                              + SumSeq([h \in 1..Len(shp[r].parts[k].interiors) |->
                                           shp[r].parts[k].interiors[h].n])])])

\* shape_parser.get_n_coords: len(exterior.coords) of every polygon and of
\* every part of every multipolygon.
get_n_coords(shp) ==
    SumSeq([r \in 1..Len(shp) |->
               SumSeq([k \in 1..Len(shp[r].parts) |-> shp[r].parts[k].exterior.n])])

\* list(ring.coords)[::-1]
Reversed(ring) == [ring EXCEPT !.ccw = ~ring.ccw]

\* shapely.geometry.polygon.orient(polygon) with its default sign=1.0: the
\* exterior ring is kept if its signed area is >= 0 (counter-clockwise) and
\* reversed otherwise; an interior ring is kept if its signed area is <= 0
\* (clockwise) and reversed otherwise.
orient(poly) ==
    [poly EXCEPT
        !.exterior = IF poly.exterior.ccw THEN poly.exterior ELSE Reversed(poly.exterior),
        !.interiors = [h \in 1..Len(poly.interiors) |->
                          IF ~poly.interiors[h].ccw THEN poly.interiors[h]
                          ELSE Reversed(poly.interiors[h])]]

\* shape_parser.orient_shape
orient_shape(shp) ==
    [r \in 1..Len(shp) |->
        IF shp[r].multi
        THEN MultiPolygonRow([k \in 1..Len(shp[r].parts) |-> orient(shp[r].parts[k])])
        ELSE PolygonRow(orient(shp[r].parts[1]))]

(***************************************************************************)
(* Point sets.  With whole-degree coordinates every region is a union of   *)
(* grid vertices, open unit edges and open unit faces; <<a, c>> names the  *)
(* one at doubled coordinates (a, c): both even a vertex, both odd a face. *)
(***************************************************************************)
ClosedBox(b) == { <<a, c>> : a \in (2 * b[1])..(2 * b[3]), c \in (2 * b[2])..(2 * b[4]) }

OpenBox(b) ==
    { <<a, c>> : a \in (2 * b[1] + 1)..(2 * b[3] - 1), c \in (2 * b[2] + 1)..(2 * b[4] - 1) }

PolygonRegion(poly) ==
    UNION { ClosedBox(b) : b \in poly.boxes } \ UNION { OpenBox(h) : h \in poly.holes }

RowRegion(row) == UNION { PolygonRegion(row.parts[k]) : k \in 1..Len(row.parts) }

\* shp.union_all() as a point set.
ShapeRegion(shp) == UNION { RowRegion(shp[r]) : r \in 1..Len(shp) }

minx == -180

maxx == 180

miny == -90

maxy == 90

\* geometry.box(i, j - 1, i + 1, j) for the tile <<i, j>>.
TileBox(t) == <<t[1], t[2] - 1, t[1] + 1, t[2]>>

\* A tiling whose last column is missing.
TileColumnsShort == minx..(maxx - 2)

\* for i in range(minx, maxx)
TileColumns == minx..(maxx - 1)

\* for j in range(maxy, miny, -1)
TileRows == (miny + 1)..maxy

\* The tiles of tile_df whose bounds meet the bounds of the region: the
\* candidates the spatial index of sjoin hands to the predicate.
CandidateTiles(region) ==
    LET is == { i \in TileColumns : \E p \in region : 2 * i <= p[1] /\ p[1] <= 2 * i + 2 }
        js == { j \in TileRows : \E p \in region : 2 * j - 2 <= p[2] /\ p[2] <= 2 * j }
    IN  is \X js

\* tile_df.sjoin(shp, how="inner", predicate="intersects"): the tiles that
\* share a point with some row of shp.
CoveringTiles(region) ==
    { t \in CandidateTiles(region) : ClosedBox(TileBox(t)) \cap region # {} }

\* Tiles that share an edge.
EdgeAdjacent(t, u) ==
    \/ t[1] = u[1] /\ (t[2] = u[2] + 1 \/ u[2] = t[2] + 1)
    \/ t[2] = u[2] /\ (t[1] = u[1] + 1 \/ u[1] = t[1] + 1)

\* The tiles of T reachable from the tiles of C over shared edges.
RECURSIVE TileComponent(_, _)
TileComponent(C, T) ==
    LET more == { t \in T \ C : \E u \in C : EdgeAdjacent(t, u) }
    IN  IF more = {} THEN C ELSE TileComponent(C \cup more, T)

\* The polygons of a union of tiles: its edge-connected parts.
RECURSIVE TileComponents(_)
TileComponents(T) ==
    IF T = {} THEN <<>>
    ELSE LET seed == CHOOSE t \in T : \A u \in T : t[1] < u[1] \/ (t[1] = u[1] /\ t[2] <= u[2])
             C == TileComponent({seed}, T)
         IN  <<C>> \o TileComponents(T \ C)

\* How often the boundary of the tiles C passes through the grid point v:
\* the number of runs of tiles of C among the four tiles around v.
BoundaryPasses(v, C) ==
    LET ne == <<v[1], v[2] + 1>> \in C
        nw == <<v[1] - 1, v[2] + 1>> \in C
        sw == <<v[1] - 1, v[2]>> \in C
        se == <<v[1], v[2]>> \in C
        passes == (IF ne /\ ~nw THEN 1 ELSE 0) + (IF nw /\ ~sw THEN 1 ELSE 0)
                  + (IF sw /\ ~se THEN 1 ELSE 0) + (IF se /\ ~ne THEN 1 ELSE 0)
    IN  passes

\* len(exterior.coords) of the union of the tiles C: the union keeps every
\* grid point on its boundary as a vertex, and the ring repeats its first.
RECURSIVE SumPasses(_, _)
SumPasses(V, C) ==
    IF V = {} THEN 0
    ELSE LET v == CHOOSE v \in V : TRUE
         IN  BoundaryPasses(v, C) + SumPasses(V \ {v}, C)

UnionRingSize(C) ==
    LET V == UNION { { <<t[1], t[2]>>, <<t[1] + 1, t[2]>>,
                       <<t[1], t[2] - 1>>, <<t[1] + 1, t[2] - 1>> } : t \in C }
    IN  SumPasses(V, C) + 1

\* covering_tiles.union_all(): one geometry, a polygon or a multipolygon.
\* ccw is the winding the library gives the rings of a union.
UnionAll(T, ccw) ==
    LET comps == TileComponents(T)
        parts == [k \in 1..Len(comps) |->
                     [exterior |-> Ring(UnionRingSize(comps[k]), ccw),
                      interiors |-> <<>>,
                      boxes |-> { TileBox(t) : t \in comps[k] },
                      holes |-> {}]]
    IN  IF Len(parts) = 1 THEN PolygonRow(parts[1]) ELSE MultiPolygonRow(parts)

\* shape_parser.get_covering_region_for_shape: a series of one geometry.
get_covering_region_for_shape(shp, ccw) ==
    << UnionAll(CoveringTiles(ShapeRegion(shp)), ccw) >>

NasaLimit == 4999

NoShape == <<>>

\* check_and_format_shape without the second comparison: the covering
\* region is returned whatever its size.
check_and_format_shape_unchecked(shp, simplify, max_coords, ccw) ==
    IF max_coords > NasaLimit
    THEN [status |-> "ValueError", n_coords |-> 0, shape |-> NoShape]
    ELSE LET n_coords == get_n_coords(shp)
         IN  IF n_coords > max_coords
             THEN IF ~simplify
                  THEN [status |-> "DetailError", n_coords |-> n_coords, shape |-> NoShape]
                  ELSE LET covering == get_covering_region_for_shape(shp, ccw)
                       IN  [status |-> "ok", n_coords |-> get_n_coords(covering),
                            shape |-> orient_shape(covering)]
             ELSE [status |-> "ok", n_coords |-> n_coords, shape |-> orient_shape(shp)]

\* shape_parser.check_and_format_shape
check_and_format_shape(shp, simplify, max_coords, ccw) ==
    IF max_coords > NasaLimit
    THEN [status |-> "ValueError", n_coords |-> 0, shape |-> NoShape]
    ELSE LET n_coords == get_n_coords(shp)
         IN  IF n_coords > max_coords
             THEN IF ~simplify
                  THEN [status |-> "DetailError", n_coords |-> n_coords, shape |-> NoShape]
                  ELSE LET covering == get_covering_region_for_shape(shp, ccw)
                           n_covering == get_n_coords(covering)
                       IN  IF n_covering > max_coords
                           THEN [status |-> "ValueError", n_coords |-> n_covering,
                                 shape |-> NoShape]
                           ELSE [status |-> "ok", n_coords |-> n_covering,
                                 shape |-> orient_shape(covering)]
             ELSE [status |-> "ok", n_coords |-> n_coords, shape |-> orient_shape(shp)]

MaxShapeRows == 2

ManyCoords == 5000

Unit == <<0, 0, 1, 1>>

Block == <<0, 0, 3, 3>>

BlockHole == <<1, 1, 2, 2>>

Island == <<5, 0, 6, 1>>

WorldCorner == <<179, 89, 180, 90>>

\* The rows a frame may hold: polygons and multipolygons, with and without
\* holes and further coordinates, of either winding, one at the world's edge.
SampleRows ==
    { PolygonRow(RectPolygon(Unit, <<>>, FALSE, FALSE, 0)),
      PolygonRow(RectPolygon(Unit, <<>>, TRUE, FALSE, ManyCoords)),
      PolygonRow(RectPolygon(Block, <<BlockHole>>, FALSE, TRUE, 0)),
      PolygonRow(RectPolygon(Block, <<BlockHole>>, TRUE, FALSE, 0)),
      PolygonRow(RectPolygon(Block, <<BlockHole>>, TRUE, TRUE, ManyCoords)),
      PolygonRow(RectPolygon(WorldCorner, <<>>, FALSE, FALSE, 0)),
      MultiPolygonRow(<< RectPolygon(Unit, <<>>, TRUE, FALSE, 0),
                         RectPolygon(Island, <<>>, FALSE, FALSE, 0) >>),
      MultiPolygonRow(<< RectPolygon(Block, <<BlockHole>>, FALSE, FALSE, 0),
                         RectPolygon(Island, <<>>, TRUE, FALSE, 0) >>) }

Shapes == UNION { [1..n -> SampleRows] : n \in 1..MaxShapeRows }

\* The values of max_coords tried: tiny, small, the default, one too large.
MaxCoordsValues == {3, 20, NasaLimit, NasaLimit + 1}

NotCalled == [call |-> "none", status |-> "none", n_coords |-> 0, shape |-> NoShape,
              simplify |-> FALSE, max_coords |-> 0]

ShapeStart ==
    /\ sShape \in Shapes
    /\ sOut = NotCalled

ShapeIdle ==
    /\ sShape = <<>>
    /\ sOut = NotCalled

\* A call of check_and_format_shape(shp, simplify, max_coords).
CheckAndFormatShape(simplify, max_coords, ccw) ==
    /\ sOut = NotCalled
    /\ LET out == check_and_format_shape(sShape, simplify, max_coords, ccw)
       IN  sOut' = [call |-> "check_and_format_shape", status |-> out.status,
                    n_coords |-> out.n_coords, shape |-> out.shape,
                    simplify |-> simplify, max_coords |-> max_coords]
    /\ UNCHANGED sShape
    /\ UNCHANGED <<hashVars, nameVars, filterVars, joinVars, pipeVars, parseVars, mdVars, asmVars, entryVars, jobVars, dlVars>>

\* A call of get_covering_region_for_shape(shp).
GetCoveringRegion(ccw) ==
    /\ sOut = NotCalled
    /\ sOut' = [NotCalled EXCEPT !.call = "get_covering_region_for_shape",
                                 !.status = "ok",
                                 !.shape = get_covering_region_for_shape(sShape, ccw)]
    /\ UNCHANGED sShape
    /\ UNCHANGED <<hashVars, nameVars, filterVars, joinVars, pipeVars, parseVars, mdVars, asmVars, entryVars, jobVars, dlVars>>

\* A call of orient_shape(shp).
OrientShape ==
    /\ sOut = NotCalled
    /\ sOut' = [NotCalled EXCEPT !.call = "orient_shape", !.status = "ok",
                                 !.shape = orient_shape(sShape)]
    /\ UNCHANGED sShape
    /\ UNCHANGED <<hashVars, nameVars, filterVars, joinVars, pipeVars, parseVars, mdVars, asmVars, entryVars, jobVars, dlVars>>

ShapeNext ==
    \/ \E simplify \in BOOLEAN, max_coords \in MaxCoordsValues, ccw \in BOOLEAN :
            CheckAndFormatShape(simplify, max_coords, ccw)
    \/ \E ccw \in BOOLEAN : GetCoveringRegion(ccw)
    \/ OrientShape

\* The polygons of a frame, the parts of its multipolygons among them.
RECURSIVE AllPolygons(_)
AllPolygons(shp) ==
    IF shp = <<>> THEN <<>> ELSE shp[1].parts \o AllPolygons(Tail(shp))

\* The number of exterior-ring coordinates of a frame.
ExteriorCoords(shp) ==
    LET polys == AllPolygons(shp)
    IN  SumSeq([k \in 1..Len(polys) |-> polys[k].exterior.n])

\* The number of exterior-ring coordinates of the tiled covering region.
CoveringCoords(shp) == ExteriorCoords(get_covering_region_for_shape(shp, TRUE))

Checked == sOut.call = "check_and_format_shape"

\* C12 (as stated): check_and_format_shape with simplify false on a shape
\* whose vertex count exceeds max_coords raises DetailError carrying that
\* count, and returns no shape.
C12_DetailErrorCarriesCount ==
    (Checked /\ ~sOut.simplify /\ ExteriorCoords(sShape) > sOut.max_coords) =>
        /\ sOut.status = "DetailError"
        /\ sOut.n_coords = ExteriorCoords(sShape)
        /\ sOut.shape = NoShape

\* C12 (amended): the same for max_coords of at most 4999, the vertex count
\* being the number of exterior-ring coordinates.
C12_DetailErrorForValidMaxCoords ==
    (Checked /\ ~sOut.simplify /\ sOut.max_coords <= NasaLimit
        /\ ExteriorCoords(sShape) > sOut.max_coords) =>
        /\ sOut.status = "DetailError"
        /\ sOut.n_coords = ExteriorCoords(sShape)
        /\ sOut.shape = NoShape

\* C12 witness: a frame of two rows, one with a hole, of more than 5000
\* coordinates was refused with max_coords 4999 and simplify false.
C12_Witness ==
    /\ Checked /\ ~sOut.simplify /\ sOut.max_coords = NasaLimit
    /\ Len(sShape) = 2
    /\ \E r \in 1..Len(sShape) : sShape[r].parts[1].interiors # <<>>
    /\ sOut.status = "DetailError"
    /\ sOut.n_coords > ManyCoords

\* C13: the covering region is a single geometry that contains the union
\* of the input geometry.
C13_CoveringContainsShape ==
    sOut.call = "get_covering_region_for_shape" =>
        /\ Len(sOut.shape) = 1
        /\ ShapeRegion(sShape) \subseteq ShapeRegion(sOut.shape)

\* C13 witness: the covering region of a frame with a multipolygon, a hole
\* and a polygon at the edge of the world was computed and has two parts.
C13_Witness ==
    /\ sOut.call = "get_covering_region_for_shape"
    /\ \E r \in 1..Len(sShape) : sShape[r].multi /\ sShape[r].parts[1].interiors # <<>>
    /\ \E r \in 1..Len(sShape) : sShape[r].parts[1].boxes = {WorldCorner}
    /\ sOut.shape[1].multi
    /\ ShapeRegion(sOut.shape) # ShapeRegion(sShape)

\* C14 (as stated): a returned shape has at most max_coords vertices, and
\* with simplify true the call fails with ValueError exactly when the tiled
\* covering region exceeds max_coords.
C14_ReturnedShapeWithinLimit ==
    Checked =>
        /\ sOut.status = "ok" => ExteriorCoords(sOut.shape) <= sOut.max_coords
        /\ sOut.simplify =>
              (sOut.status = "ValueError" <=> CoveringCoords(sShape) > sOut.max_coords)

\* C14 (amended): a returned shape has at most max_coords vertices, and
\* with simplify true and max_coords of at most 4999 the call fails with
\* ValueError exactly when the shape exceeds max_coords and its tiled
\* covering region exceeds it as well.
C14_ValueErrorWhenCoveringTooLarge ==
    Checked =>
        /\ sOut.status = "ok" => ExteriorCoords(sOut.shape) <= sOut.max_coords
        /\ (sOut.simplify /\ sOut.max_coords <= NasaLimit) =>
              (sOut.status = "ValueError" <=>
                  /\ ExteriorCoords(sShape) > sOut.max_coords
                  /\ CoveringCoords(sShape) > sOut.max_coords)

\* C14 witness: a shape of more than 5000 coordinates was replaced by its
\* covering region, which has fewer coordinates than max_coords.
C14_Witness ==
    /\ Checked /\ sOut.simplify /\ sOut.status = "ok"
    /\ ExteriorCoords(sShape) > ManyCoords
    /\ ExteriorCoords(sOut.shape) < sOut.max_coords
    /\ ShapeRegion(sOut.shape) # ShapeRegion(sShape)

\* C30: the count check_and_format_shape compares against max_coords is
\* the number of exterior-ring coordinates: a frame whose exterior rings are
\* within max_coords is returned as it is, oriented, whatever its interior
\* rings hold, and the count the call reports is that of the exterior rings.
C30_HolesAddNothing ==
    (Checked /\ sOut.max_coords <= NasaLimit) =>
        /\ (ExteriorCoords(sShape) <= sOut.max_coords)
               => /\ sOut.status = "ok"
                  /\ sOut.shape = orient_shape(sShape)
                  /\ sOut.n_coords = ExteriorCoords(sShape)
        /\ sOut.status = "DetailError" => sOut.n_coords = ExteriorCoords(sShape)

\* C30 witness: a frame with holes was accepted whose exterior rings are
\* within max_coords while all of its rings together exceed it.
C30_Witness ==
    /\ Checked
    /\ sOut.status = "ok"
    /\ \E k \in 1..Len(AllPolygons(sShape)) : AllPolygons(sShape)[k].interiors # <<>>
    /\ ExteriorCoords(sShape) <= sOut.max_coords
    /\ get_n_coords_all_rings(sShape) > sOut.max_coords

\* C15: orient_shape, and every shape check_and_format_shape returns, has
\* every exterior ring clockwise and every interior ring counter-clockwise.
C15_ExteriorClockwise ==
    (sOut.call \in {"orient_shape", "check_and_format_shape"} /\ sOut.status = "ok") =>
        \A r \in 1..Len(sOut.shape) : \A k \in 1..Len(sOut.shape[r].parts) :
            /\ ~sOut.shape[r].parts[k].exterior.ccw
            /\ \A h \in 1..Len(sOut.shape[r].parts[k].interiors) :
                   sOut.shape[r].parts[k].interiors[h].ccw

(***************************************************************************)
(* Assembly domain: _process_granule on the files of one logical granule,  *)
(* file by file in the order they arrive, up to the artifact it writes.    *)
(***************************************************************************)
MaxFileRows == 1

\* What parse_file(product, file, quality_filter=True) comes to for one
\* file: a filtered table (possibly empty), or an exception.
ParsedTable(table) == [raised |-> FALSE, table |-> table]

ParseRaised == [raised |-> TRUE, table |-> <<>>]

FileShotLists == UNION { [1..n -> ShotNumbers] : n \in 0..MaxFileRows }

\* The orders in which groupByKey can hand over the three products.
GranuleOrders ==
    { o \in [1..3 -> Products] : \A i, j \in 1..3 : o[i] = o[j] => i = j }

NoArtifact == [kind |-> "absent", rows |-> <<>>]

PriorArtifact == [kind |-> "prior", rows |-> <<>>]

NotAssembled == [status |-> "none", file |-> NoArtifact, parsed |-> 0,
                 joined |-> FALSE]

\* The loop of data_setup.py:176-201 leaves the function at the first file
\* whose parse raises or whose filtered table is empty (0: at none).
StopsAtException(granules) ==
    LET stops == { i \in 1..Len(granules) : granules[i].parsed.raised }
    IN  IF stops = {} THEN 0
        ELSE CHOOSE i \in stops : \A j \in stops : i <= j

StopsAt(granules) ==
    LET stops == { i \in 1..Len(granules) :
                       \/ granules[i].parsed.raised
                       \/ granules[i].parsed.table = <<>> }
    IN  IF stops = {} THEN 0
        ELSE CHOOSE i \in stops : \A j \in stops : i <= j

\* gdfs once the loop has run through: the table of each product.
Gdfs(granules) ==
    [p \in Products |->
        granules[CHOOSE i \in 1..Len(granules) : granules[i].product = p].parsed.table]

\* _process_granule without the test of data_setup.py:171-172: it parses and
\* writes whatever is at the path.
process_granule_uncached(granules, existing) ==
    LET stop == StopsAt(granules)
    IN  IF stop = 0
        THEN [status |-> "returned",
              file |-> [kind |-> "joined",
                        rows |-> JoinProducts(Gdfs(granules))],
              parsed |-> Len(granules), joined |-> TRUE]
        ELSE IF granules[stop].parsed.raised
        THEN [status |-> "raised", file |-> existing, parsed |-> stop,
              joined |-> FALSE]
        ELSE [status |-> "returned",
              file |-> [kind |-> "placeholder", rows |-> <<>>],
              parsed |-> stop, joined |-> FALSE]

\* _process_granule (data_setup.py:160-243): what it leaves at outfile_path,
\* how it ends, how many files it parsed and whether it joined.
process_granule(granules, existing) ==
    IF existing # NoArtifact
    THEN [status |-> "returned", file |-> existing, parsed |-> 0,
          joined |-> FALSE]
    ELSE LET stop == StopsAt(granules)
         IN  IF stop = 0
             THEN [status |-> "returned",
                   file |-> [kind |-> "joined",
                             rows |-> JoinProducts(Gdfs(granules))],
                   parsed |-> Len(granules), joined |-> TRUE]
             ELSE IF granules[stop].parsed.raised
             THEN [status |-> "raised", file |-> existing, parsed |-> stop,
                   joined |-> FALSE]
             ELSE [status |-> "returned",
                   file |-> [kind |-> "placeholder", rows |-> <<>>],
                   parsed |-> stop, joined |-> FALSE]

AsmStart ==
    /\ aGranules \in
          { [i \in 1..3 |->
                [product |-> o[i],
                 parsed |-> IF pick[i] = <<0>> THEN ParseRaised
                            ELSE ParsedTable(ProductTable(o[i], pick[i]))]] :
              o \in GranuleOrders,
              pick \in [1..3 -> {<<0>>} \cup FileShotLists] }
    /\ aExisting \in {NoArtifact, PriorArtifact}
    /\ aOut = NotAssembled

AsmIdle ==
    /\ aGranules = <<>>
    /\ aExisting = NoArtifact
    /\ aOut = NotAssembled

\* One call of _process_granule.
ProcessGranuleFiles ==
    /\ aOut = NotAssembled
    /\ aOut' = process_granule(aGranules, aExisting)
    /\ UNCHANGED <<aGranules, aExisting, hashVars, nameVars, filterVars, joinVars, pipeVars, parseVars, shapeVars, mdVars, entryVars, jobVars, dlVars>>

AsmNext == ProcessGranuleFiles

\* The first file of the loop whose filtered table is empty, when no file
\* before it fails to parse (0: there is none).
FirstEmptyTable ==
    LET empties == { i \in 1..Len(aGranules) :
                        /\ ~aGranules[i].parsed.raised
                        /\ aGranules[i].parsed.table = <<>>
                        /\ \A j \in 1..(i - 1) : ~aGranules[j].parsed.raised }
    IN  IF empties = {} THEN 0
        ELSE CHOOSE i \in empties : \A j \in empties : i <= j

AsmKey == <<"O", "1", "_", "0", "1">>

AsmFileName(p) ==
    GranuleFiles(AsmKey)[CASE p = "L4A" -> 1 [] p = "L2A" -> 2 [] p = "L2B" -> 3]

\* [fname[1].name for fname in granules], in the order handed over.
AsmNames(granules) == [i \in 1..Len(granules) |-> AsmFileName(granules[i].product)]

\* return_value = (granule_key, outfile_path, included_files)
return_value(granule_key, names) ==
    <<granule_key, OutfilePath(granule_key, IncludedFiles(names)),
      IncludedFiles(names)>>

\* C23: the artifact path, and with it the whole return value, is the same
\* for every order in which the files of a key are handed over; when an
\* artifact is at that path, _process_granule returns without parsing any
\* file, without joining, and leaves the artifact as it found it.
C23_CacheHitReturnsUntouched ==
    (aOut # NotAssembled /\ aExisting # NoArtifact) =>
        /\ aOut.status = "returned"
        /\ aOut.parsed = 0
        /\ ~aOut.joined
        /\ aOut.file = aExisting
        /\ \A o \in GranuleOrders :
               return_value(AsmKey, [i \in 1..3 |-> AsmFileName(o[i])])
                   = return_value(AsmKey, AsmNames(aGranules))

\* C23 witness: the call found an artifact at the path while all three files
\* would have parsed to tables with shots, handed over with L2B first, and
\* it has returned that artifact.
C23_Witness ==
    /\ aOut # NotAssembled
    /\ aExisting = PriorArtifact
    /\ aGranules[1].product = "L2B"
    /\ \A i \in 1..3 : ~aGranules[i].parsed.raised /\ aGranules[i].parsed.table # <<>>
    /\ aOut.file = PriorArtifact

(***************************************************************************)
(* Metadata domain: the rows the catalogue returns for the products, as    *)
(* _get_granule_metadata concatenates them, and the work list it returns.  *)
(***************************************************************************)
MaxCopies == 2

MdKeys == {"O1_01", "O2_01"}

\* The frame md of data_setup.py:68-70 in which the catalogue holds
\* count[<<k, p>>] files of product p with granule key k.
MetadataRows(count) ==
    { [granule_key |-> k, product |-> p, granule_file |-> <<p, k, i>>] :
          k \in MdKeys, p \in Products, i \in 1..MaxCopies }
      \ { row \in
            { [granule_key |-> k, product |-> p, granule_file |-> <<p, k, i>>] :
                  k \in MdKeys, p \in Products, i \in 1..MaxCopies } :
            row.granule_file[3] > count[<<row.granule_key, row.product>>] }

\* md[["product", "granule_key"]].groupby("granule_key")["product"].nunique()
nprod(md) ==
    [k \in { row.granule_key : row \in md } |->
        Cardinality({ row.product : row \in { x \in md : x.granule_key = k } })]

\* nprod[nprod != len(products)].index
omit(md, products) ==
    { k \in DOMAIN nprod(md) : nprod(md)[k] # Cardinality(products) }

\* _get_granule_metadata after the catalogue queries (data_setup.py:72-88).
get_granule_metadata(md, products) ==
    { row \in md : row.granule_key \notin omit(md, products) }

NotQueried == [status |-> "none", md |-> {}]

MdStart ==
    /\ mFiles \in { MetadataRows(count) :
                      count \in [MdKeys \X Products -> 0..MaxCopies] }
    /\ mOut = NotQueried

MdIdle ==
    /\ mFiles = {}
    /\ mOut = NotQueried

\* One call of _get_granule_metadata.
GetGranuleMetadata ==
    /\ mOut = NotQueried
    /\ mOut' = [status |-> "returned",
                md |-> get_granule_metadata(mFiles, Products)]
    /\ UNCHANGED <<mFiles, hashVars, nameVars, filterVars, joinVars, pipeVars, parseVars, shapeVars, asmVars, entryVars, jobVars, dlVars>>

MdNext == GetGranuleMetadata

\* The files of product p with key k among the rows md.
FilesOf(md, k, p) ==
    { row \in md : row.granule_key = k /\ row.product = p }

\* C19: the work list holds the rows of a key exactly when the catalogue
\* has exactly one file of the key for each of the three products; the
\* rows of a key with any other file set are omitted.
C19_WorkListHasCompleteSets ==
    mOut # NotQueried =>
        \A k \in MdKeys :
            IF \A p \in Products : Cardinality(FilesOf(mFiles, k, p)) = 1
            THEN \A p \in Products : FilesOf(mOut.md, k, p) = FilesOf(mFiles, k, p)
            ELSE \A p \in Products : FilesOf(mOut.md, k, p) = {}

(***************************************************************************)
(* Ledger-entry domain: the files of one key of the work list, in the      *)
(* order they are handed to _process_granule, and the ledger row that      *)
(* _write_db builds from what _process_granule returns.                    *)
(***************************************************************************)
MaxExtraFiles == 1

EntryKey == <<"O", "1", "_", "0", "1">>

ProductCode(p) ==
    CASE p = "L2A" -> <<"G", "0", "2", "_", "A">>
      [] p = "L2B" -> <<"G", "0", "2", "_", "B">>
      [] p = "L4A" -> <<"G", "0", "4", "_", "A">>

\* The file of product p and release v for the key.
ProductFile(p, v) ==
    [product |-> p,
     name |-> ProductCode(p) \o <<"_">> \o EntryKey \o <<"_", "V">> \o DecimalStr(v)]

\* The file sets of a key that _get_granule_metadata leaves in the work
\* list: every product is there, and up to MaxExtraFiles further files.
WorkListFileSets ==
    { { ProductFile(p, 1) : p \in Products } \cup extra :
          extra \in { e \in SUBSET { ProductFile(p, v) :
                                       p \in Products,
                                       v \in 2..(1 + MaxExtraFiles) } :
                          Cardinality(e) <= MaxExtraFiles } }

\* The orders in which groupByKey can hand over the files of a set.
Orderings(files) ==
    { o \in [1..Cardinality(files) -> files] :
          \A i, j \in 1..Cardinality(files) : o[i] = o[j] => i = j }

NoRow == [granule_name |-> <<>>]

EntryStart ==
    /\ eFiles \in UNION { Orderings(files) : files \in WorkListFileSets }
    /\ eRow = NoRow

EntryIdle ==
    /\ eFiles = <<>>
    /\ eRow = NoRow

\* _process_granule's return value handed to _write_db, up to the ledger row.
WriteLedgerRow ==
    /\ eRow = NoRow
    /\ LET included_files == IncludedFiles([i \in 1..Len(eFiles) |-> eFiles[i].name])
       IN  eRow' = granule_entry(EntryKey,
                                 OutfilePath(EntryKey, included_files),
                                 included_files, "utcnow")
    /\ UNCHANGED <<eFiles, hashVars, nameVars, filterVars, joinVars, pipeVars, parseVars, shapeVars, mdVars, asmVars, jobVars, dlVars>>

EntryNext == WriteLedgerRow

\* The names of the files of product p among those handed over.
NamesOf(p) == { eFiles[i].name : i \in { j \in 1..Len(eFiles) : eFiles[j].product = p } }

\* C20: the ledger row has the hash of the sorted filenames as
\* granule_hash, and an L2A, an L2B and an L4A filename of the granule as
\* l2a_file, l2b_file and l4a_file, in whatever order the files came.
C20_LedgerRowNamesProducts ==
    eRow # NoRow =>
        /\ eRow.granule_hash =
              hash_string_list(Sorted([i \in 1..Len(eFiles) |-> eFiles[i].name]))
        /\ eRow.l2a_file \in NamesOf("L2A")
        /\ eRow.l2b_file \in NamesOf("L2B")
        /\ eRow.l4a_file \in NamesOf("L4A")

(***************************************************************************)
(* Job domain: the Spark job of one run of exec_spark.  The logical        *)
(* granules are spread over the partitions left by coalesce; the task of a *)
(* partition takes its granules in order through _process_granule and      *)
(* then _write_db.  An exception that leaves a mapped function fails the   *)
(* task, and a failed task fails the job.                                  *)
(***************************************************************************)
MaxGranules == 3

NumPartitions == 2

JobGranules == 1..MaxGranules

\* The task of partition q has failed: _process_granule has raised on one
\* of its granules.
TaskFailed(q) ==
    \E g \in JobGranules : pPart[g] = q /\ pState[g] = "failed"

JobStart ==
    /\ pOutcome \in [JobGranules -> {"ok", "raises"}]
    /\ pPart \in [JobGranules -> 1..NumPartitions]
    /\ pState = [g \in JobGranules |-> "pending"]
    /\ pJob = "running"

JobIdle ==
    /\ pOutcome = <<>>
    /\ pPart = <<>>
    /\ pState = <<>>
    /\ pJob = "none"

\* files_by_granule.map(_process_granule) on the next granule of a
\* partition: the exception of data_setup.py:201 leaves the function.
ProcessRecord(g) ==
    /\ pJob = "running"
    /\ pState[g] = "pending"
    /\ ~TaskFailed(pPart[g])
    /\ \A h \in JobGranules : (h < g /\ pPart[h] = pPart[g]) => pState[h] # "pending"
    /\ pState' = [pState EXCEPT ![g] = IF pOutcome[g] = "raises" THEN "failed"
                                       ELSE "processed"]
    /\ UNCHANGED <<pOutcome, pPart, pJob, hashVars, nameVars, filterVars, joinVars, pipeVars, parseVars, shapeVars, mdVars, asmVars, entryVars, dlVars>>

\* processed_granules.coalesce(8).map(_write_db) on a processed granule, in
\* the same task.
WriteRecord(g) ==
    /\ pJob = "running"
    /\ pState[g] = "processed"
    /\ ~TaskFailed(pPart[g])
    /\ pState' = [pState EXCEPT ![g] = "ingested"]
    /\ UNCHANGED <<pOutcome, pPart, pJob, hashVars, nameVars, filterVars, joinVars, pipeVars, parseVars, shapeVars, mdVars, asmVars, entryVars, dlVars>>

\* out.count() raises once a task has failed: the tasks still running are
\* cancelled and no further task is started.
AbortJob ==
    /\ pJob = "running"
    /\ \E q \in 1..NumPartitions : TaskFailed(q)
    /\ pJob' = "aborted"
    /\ UNCHANGED <<pOutcome, pPart, pState, hashVars, nameVars, filterVars, joinVars, pipeVars, parseVars, shapeVars, mdVars, asmVars, entryVars, dlVars>>

\* out.count() returns: every task has run through its partition.
FinishJob ==
    /\ pJob = "running"
    /\ \A g \in JobGranules : pState[g] = "ingested"
    /\ pJob' = "finished"
    /\ UNCHANGED <<pOutcome, pPart, pState, hashVars, nameVars, filterVars, joinVars, pipeVars, parseVars, shapeVars, mdVars, asmVars, entryVars, dlVars>>

JobNext ==
    \/ \E g \in JobGranules : ProcessRecord(g)
    \/ \E g \in JobGranules : WriteRecord(g)
    \/ AbortJob
    \/ FinishJob

\* C21: once the job of a run has ended, every logical granule whose own
\* files parse and assemble has been processed and ingested, whatever
\* happened to the other granules of the run.
C21_FailureIsIsolated ==
    pJob \in {"aborted", "finished"} =>
        \A g \in JobGranules : pOutcome[g] = "ok" => pState[g] = "ingested"

(***************************************************************************)
(* Download domain: one call of _download_url, from the test of the        *)
(* destination to the return or the exception, with the file wget leaves   *)
(* in the temporary file at each attempt.                                  *)
(***************************************************************************)
MaxFileSize == 2

\* A path with no file, and a file of n bytes.
NoFile == [exists |-> FALSE, size |-> 0]

FileOf(n) == [exists |-> TRUE, size |-> n]

\* What one run of wget comes to: a non-zero exit status, or exit status 0
\* with n bytes written to the file named by -O.
WgetFails == [error |-> TRUE, size |-> 0]

WgetWrites(n) == [error |-> FALSE, size |-> n]

WgetResults == {WgetFails} \cup { WgetWrites(n) : n \in 0..MaxFileSize }

\* os.path.getsize
getsize(file) == file.size

\* A size test that lets every file through.
never_empty_file(file) == FALSE

\* os.path.getsize(temp.name) == 0
empty_file(file) == getsize(file) = 0

DlStart ==
    /\ dInput \in [product : Products,
                   existing : {NoFile} \cup { FileOf(n) : n \in 0..MaxFileSize },
                   serves : [1..2 -> WgetResults]]
    /\ dDest = dInput.existing
    /\ dTemp = NoFile
    /\ dAttempts = 0
    /\ dPc = "enter"

DlIdle ==
    /\ dInput = <<>>
    /\ dDest = NoFile
    /\ dTemp = NoFile
    /\ dAttempts = 0
    /\ dPc = "none"

\* data_setup.py:94-105: the test of the destination, and the temporary file.
DownloadEnter ==
    /\ dPc = "enter"
    /\ IF dDest.exists
       THEN /\ dPc' = "returned"
            /\ UNCHANGED dTemp
       ELSE /\ dPc' = "first"
            /\ dTemp' = FileOf(0)
    /\ UNCHANGED <<dInput, dDest, dAttempts>>
    /\ UNCHANGED <<hashVars, nameVars, filterVars, joinVars, pipeVars, parseVars, shapeVars, mdVars, asmVars, entryVars, jobVars>>

\* The first subprocess.run(["wget", ...], check=True) and the test of line
\* 129; an exit status other than 0 raises CalledProcessError, and the
\* finally clause closes, and so deletes, the temporary file.
FirstAttempt ==
    /\ dPc = "first"
    /\ dAttempts' = dAttempts + 1
    /\ IF dInput.serves[1].error
       THEN /\ dPc' = "raised"
            /\ dTemp' = NoFile
       ELSE /\ dTemp' = FileOf(dInput.serves[1].size)
            /\ dPc' = IF empty_file(FileOf(dInput.serves[1].size))
                      THEN "second" ELSE "move"
    /\ UNCHANGED <<dInput, dDest>>
    /\ UNCHANGED <<hashVars, nameVars, filterVars, joinVars, pipeVars, parseVars, shapeVars, mdVars, asmVars, entryVars, jobVars>>

\* time.sleep(5), the second subprocess.run and the test of line 147.
SecondAttempt ==
    /\ dPc = "second"
    /\ dAttempts' = dAttempts + 1
    /\ IF dInput.serves[2].error \/ empty_file(FileOf(dInput.serves[2].size))
       THEN /\ dPc' = "raised"
            /\ dTemp' = NoFile
       ELSE /\ dTemp' = FileOf(dInput.serves[2].size)
            /\ dPc' = "move"
    /\ UNCHANGED <<dInput, dDest>>
    /\ UNCHANGED <<hashVars, nameVars, filterVars, joinVars, pipeVars, parseVars, shapeVars, mdVars, asmVars, entryVars, jobVars>>

\* shutil.move(temp.name, outfile_path), the finally clause (closing the
\* temporary file finds nothing to delete) and the return.
MoveAndReturn ==
    /\ dPc = "move"
    /\ dDest' = dTemp
    /\ dTemp' = NoFile
    /\ dPc' = "returned"
    /\ UNCHANGED <<dInput, dAttempts>>
    /\ UNCHANGED <<hashVars, nameVars, filterVars, joinVars, pipeVars, parseVars, shapeVars, mdVars, asmVars, entryVars, jobVars>>

DlNext ==
    \/ DownloadEnter
    \/ FirstAttempt
    \/ SecondAttempt
    \/ MoveAndReturn

\* C25: a call of _download_url runs wget at most twice, and a second time
\* only after a first run that ended without an error and left an empty
\* file; the destination changes only by getting the non-empty file of the
\* last run; when both runs leave an empty file the call raises and the
\* destination holds no file; no temporary file is left behind.
C25_OneRetryAfterEmpty ==
    /\ dAttempts <= 2
    /\ dAttempts = 2 => dInput.serves[1] = WgetWrites(0)
    /\ dDest # dInput.existing =>
           /\ dAttempts >= 1
           /\ dDest = FileOf(dInput.serves[dAttempts].size)
           /\ dDest.size > 0
           /\ dPc = "returned"
    /\ (/\ dPc \in {"returned", "raised"}
        /\ ~dInput.existing.exists
        /\ dInput.serves[1] = WgetWrites(0)
        /\ dInput.serves[2] = WgetWrites(0))
           => /\ dPc = "raised"
              /\ dAttempts = 2
              /\ dDest = NoFile
    /\ dPc \in {"returned", "raised"} => dTemp = NoFile

\* C25 witness: the first run of wget left an empty file, the second one a
\* file with content, and the call has returned with that file at the
\* destination.
C25_Witness ==
    /\ dPc = "returned"
    /\ dAttempts = 2
    /\ dInput.serves[1] = WgetWrites(0)
    /\ dDest.exists
    /\ dDest.size > 0
    /\ ~dInput.existing.exists

(***************************************************************************)
(* Hash domain: a list of filenames as discovered, and the same files in   *)
(* another discovery order.                                                *)
(***************************************************************************)
MaxListLen == 3

HashNames == {<<"a">>, <<"b">>, <<"a", "b">>, <<"b", "a">>}

RECURSIVE Permutations_(_)
Permutations_(l) ==
    IF l = <<>> THEN {<<>>}
    ELSE UNION { { <<l[i]>> \o p :
                   p \in Permutations_(SubSeq(l, 1, i - 1) \o SubSeq(l, i + 1, Len(l))) }
                 : i \in 1..Len(l) }

HashLists == UNION { [1..n -> HashNames] : n \in 0..MaxListLen }

HashStart ==
    /\ hList \in HashLists
    /\ hPerm \in Permutations_(hList)
    /\ hDigest = [w \in {"list", "perm"} |-> None]
    /\ hKey = [w \in {"list", "perm"} |-> None]

HashIdle ==
    /\ hList = <<>>
    /\ hPerm = <<>>
    /\ hDigest = [w \in {"list", "perm"} |-> None]
    /\ hKey = [w \in {"list", "perm"} |-> None]

HashInput(w) == IF w = "list" THEN hList ELSE hPerm

\* A caller hashes the list in the order it has it.
HashStringList(w) ==
    /\ hDigest[w] = None
    /\ hDigest' = [hDigest EXCEPT ![w] = hash_string_list(HashInput(w))]
    /\ UNCHANGED <<hList, hPerm, hKey, nameVars, filterVars, joinVars, pipeVars, parseVars, shapeVars, mdVars, asmVars, entryVars, jobVars, dlVars>>

\* _process_granule computes the artifact's content hash.
ProcessGranuleHash(w) ==
    /\ hKey[w] = None
    /\ hKey' = [hKey EXCEPT ![w] = ContentHash(HashInput(w))]
    /\ UNCHANGED <<hList, hPerm, hDigest, nameVars, filterVars, joinVars, pipeVars, parseVars, shapeVars, mdVars, asmVars, entryVars, jobVars, dlVars>>

HashNext ==
    \/ \E w \in {"list", "perm"} : HashStringList(w)
    \/ \E w \in {"list", "perm"} : ProcessGranuleHash(w)

HashInit == HashStart /\ NameIdle /\ FilterIdle /\ JoinIdle /\ PipeIdle
    /\ ParseIdle /\ ShapeIdle /\ MdIdle /\ AsmIdle /\ EntryIdle /\ JobIdle /\ DlIdle

SpecHash == HashInit /\ [][HashNext]_vars

NameInit == NameStart /\ HashIdle /\ FilterIdle /\ JoinIdle /\ PipeIdle
    /\ ParseIdle /\ ShapeIdle /\ MdIdle /\ AsmIdle /\ EntryIdle /\ JobIdle /\ DlIdle

SpecName == NameInit /\ [][NameNext]_vars

FilterInit == FilterStart /\ HashIdle /\ NameIdle /\ JoinIdle /\ PipeIdle
    /\ ParseIdle /\ ShapeIdle /\ MdIdle /\ AsmIdle /\ EntryIdle /\ JobIdle /\ DlIdle

SpecFilter == FilterInit /\ [][FilterNext]_vars

JoinInit == JoinStart /\ HashIdle /\ NameIdle /\ FilterIdle /\ PipeIdle
    /\ ParseIdle /\ ShapeIdle /\ MdIdle /\ AsmIdle /\ EntryIdle /\ JobIdle /\ DlIdle

SpecJoin == JoinInit /\ [][JoinNext]_vars

ParseInit == ParseStart /\ HashIdle /\ NameIdle /\ FilterIdle /\ JoinIdle /\ PipeIdle
    /\ ShapeIdle /\ MdIdle /\ AsmIdle /\ EntryIdle /\ JobIdle /\ DlIdle

SpecParse == ParseInit /\ [][ParseNext]_vars

ShapeInit == ShapeStart /\ HashIdle /\ NameIdle /\ FilterIdle /\ JoinIdle /\ PipeIdle
    /\ ParseIdle /\ MdIdle /\ AsmIdle /\ EntryIdle /\ JobIdle /\ DlIdle

SpecShape == ShapeInit /\ [][ShapeNext]_vars

AsmInit == AsmStart /\ HashIdle /\ NameIdle /\ FilterIdle /\ JoinIdle /\ PipeIdle
    /\ ParseIdle /\ ShapeIdle /\ MdIdle /\ EntryIdle /\ JobIdle /\ DlIdle

SpecAsm == AsmInit /\ [][AsmNext]_vars

StaleInit == StaleStart /\ HashIdle /\ NameIdle /\ FilterIdle /\ JoinIdle
    /\ ParseIdle /\ ShapeIdle /\ MdIdle /\ AsmIdle /\ EntryIdle /\ JobIdle /\ DlIdle

SpecStale == StaleInit /\ [][Next]_vars

ResumeInit == ResumeStart /\ HashIdle /\ NameIdle /\ FilterIdle /\ JoinIdle
    /\ ParseIdle /\ ShapeIdle /\ MdIdle /\ AsmIdle /\ EntryIdle /\ JobIdle /\ DlIdle

SpecResume == ResumeInit /\ [][Next]_vars

MdInit == MdStart /\ HashIdle /\ NameIdle /\ FilterIdle /\ JoinIdle /\ PipeIdle
    /\ ParseIdle /\ ShapeIdle /\ AsmIdle /\ EntryIdle /\ JobIdle /\ DlIdle

SpecMd == MdInit /\ [][MdNext]_vars

EntryInit == EntryStart /\ HashIdle /\ NameIdle /\ FilterIdle /\ JoinIdle /\ PipeIdle
    /\ ParseIdle /\ ShapeIdle /\ MdIdle /\ AsmIdle /\ JobIdle /\ DlIdle

SpecEntry == EntryInit /\ [][EntryNext]_vars

JobInit == JobStart /\ HashIdle /\ NameIdle /\ FilterIdle /\ JoinIdle /\ PipeIdle
    /\ ParseIdle /\ ShapeIdle /\ MdIdle /\ AsmIdle /\ EntryIdle /\ DlIdle

SpecJob == JobInit /\ [][JobNext]_vars

DlInit == DlStart /\ HashIdle /\ NameIdle /\ FilterIdle /\ JoinIdle /\ PipeIdle
    /\ ParseIdle /\ ShapeIdle /\ MdIdle /\ AsmIdle /\ EntryIdle /\ JobIdle

SpecDl == DlInit /\ [][DlNext]_vars

Init == PipeStart /\ HashIdle /\ NameIdle /\ FilterIdle /\ JoinIdle
    /\ ParseIdle /\ ShapeIdle /\ MdIdle /\ AsmIdle /\ EntryIdle /\ JobIdle /\ DlIdle

Spec == Init /\ [][Next]_vars

\* C4 (as stated): hash_string_list gives a list and any permutation of it
\* the same digest.
C4_HashStringListOrderIndependent ==
    (hDigest["list"] # None /\ hDigest["perm"] # None)
        => hDigest["list"] = hDigest["perm"]

\* C4 (amended): the content hash that _process_granule computes, the hash
\* of the sorted filenames, is the same for a list and any permutation of it.
C4_ContentHashOrderIndependent ==
    (hKey["list"] # None /\ hKey["perm"] # None)
        => hKey["list"] = hKey["perm"]

\* C4 witness: two different orders of the same files, both content-hashed.
C4_Witness ==
    /\ hList # hPerm
    /\ Len(hList) = 3
    /\ hKey["list"] # None
    /\ hKey["perm"] # None

====
